---- MODULE Spec2Model ----
(***************************************************************************)
(* WebWaveCam (samblenny/webwavecam): the wavelet filter chain of main.js. *)
(* Buffers are the program's Uint8Array values, modelled as sequences of    *)
(* bytes: element i of the array (counted from 0, as in the source) is     *)
(* element i+1 of the sequence.  Load and Store take the source's index.   *)
(***************************************************************************)
EXTENDS Integers, Sequences, FiniteSets, TLC

VARIABLES
    pc,      \* position of the running call sequence / frame pipeline
    w,       \* buffer width  (CANVAS.width / VIDEO.videoWidth)
    h,       \* buffer height
    levels,  \* number of wavelet levels requested
    luma,    \* the intensity buffer (Uint8Array, 1 byte per pixel)
    luma0,   \* the intensity buffer as it was before the first call
    rgba,    \* the colour buffer (imageData.data, 4 bytes per pixel)
    rgba0,   \* the colour buffer as getImageData returned it
    wrap,    \* TRUE when a value outside 0..255 reached an 8-bit store
    cfg,     \* values of the DOM controls read by the filter chain
    used,    \* what the calls ran with: per level, the subregion and the
             \* shaping parameters; per stage, its name and its input
    cam      \* the camera session: the button, STREAM, the getUserMedia
             \* promises and the frame callbacks pending on VIDEO

vars == <<pc, w, h, levels, luma, luma0, rgba, rgba0, wrap, cfg, used, cam>>

(***************************************************************************)
(* Bounds of the model.                                                    *)
(***************************************************************************)
MaxDim == 8        \* widths and heights range over 1..MaxDim
MaxLevels == 3     \* level counts range over 1..MaxLevels

(***************************************************************************)
(* JavaScript integer arithmetic on the values the code handles.           *)
(***************************************************************************)
Pow2(k) == 2 ^ k

\* v >> k with a negative count treated as no shift at all
ShrNegativeCountIgnored(v, k) == IF k < 0 THEN v ELSE v \div Pow2(k % 32)

\* v >> k on an Int32: the shift count is k & 31 and the shift is arithmetic
\* (floor division), so a count of -1 shifts by 31 and leaves only the sign
Shr(v, k) ==
    LET count == k % 32
    IN  IF count = 31 THEN (IF v < 0 THEN -1 ELSE 0) ELSE v \div Pow2(count)

\* v << k, k small enough that no bit is lost
Shl(v, k) == v * Pow2(k)

\* v & 0xff
Mask8(v) == v % 256

\* v << 24 >> 24: the low byte of v read as a signed 8-bit value
SignExtend8(v) == (((v % 256) + 128) % 256) - 128

\* Math.abs
Abs(v) == IF v < 0 THEN -v ELSE v

\* (v < 0) ? 0 : ((v > 255) ? 255 : v)
Clamp255(v) == IF v < 0 THEN 0 ELSE IF v > 255 THEN 255 ELSE v

\* new Uint8Array(n): n zero bytes
NewUint8Array(n) == [i \in 1..n |-> 0]

\* buf[i] used as an integer operand: an index outside the array reads
\* undefined, which the bitwise operators of the source convert to 0
InArray(buf, i) == 0 <= i /\ i < Len(buf)

Load(buf, i) == IF InArray(buf, i) THEN buf[i + 1] ELSE 0

\* buf[i] = v and buf[i] = v & 0xff on a Uint8Array: the low byte of v is
\* kept; a store outside the array is ignored
Store(buf, i, v) == IF InArray(buf, i) THEN [buf EXCEPT ![i + 1] = Mask8(v)] ELSE buf

\* whether the mask or the store changes v (v is not an 8-bit value)
Wraps(v) == v < 0 \/ v > 255

(***************************************************************************)
(* The working state of one transform call: the intensity buffer, the two  *)
(* scratch arrays the function allocates, and the wrap-around record.      *)
(* w, cols and rows are the constants of the level that is running; trace, *)
(* outside and oob record what the call did: the passes in the order they  *)
(* started, whether a store to luma changed a sample outside the level's   *)
(* subregion, and whether a read of luma addressed a position outside the  *)
(* subregion or outside the array.                                         *)
(***************************************************************************)
Work(ww, hh, buf) ==
    [luma |-> buf, rowBuf |-> NewUint8Array(ww), colBuf |-> NewUint8Array(hh),
     x |-> 0, y |-> 0, level |-> 0, wrap |-> FALSE,
     w |-> ww, cols |-> ww, rows |-> hh,
     trace |-> <<>>, outside |-> FALSE, oob |-> FALSE]

\* x = v, y = v: the loop variables of the pass that is running
SetX(st, v) == [st EXCEPT !.x = v]

SetY(st, v) == [st EXCEPT !.y = v]

\* level = v: the loop variable of the level loop
SetLevel(st, v) == [st EXCEPT !.level = v]

\* the index i of luma is a sample of the subregion of the running level:
\* x < cols and y < rows
InRegion(st, i) ==
    /\ InArray(st.luma, i)
    /\ i % st.w < st.cols
    /\ i \div st.w < st.rows

\* const cols = w >> (level-1); const rows = h >> (level-1);
EnterLevel(st, ww, hh, level) ==
    [st EXCEPT !.cols = Shr(ww, level - 1), !.rows = Shr(hh, level - 1)]

\* the pass over the rows or over the columns of a level starts
Mark(st, level, axis) ==
    [st EXCEPT !.trace = Append(st.trace, [level |-> level, axis |-> axis])]

\* luma[i] is read for every i of the set
Reads(st, indices) ==
    [st EXCEPT !.oob = st.oob \/ \E i \in indices : ~InRegion(st, i)]

PutLuma(st, i, v) ==
    [st EXCEPT !.luma = Store(st.luma, i, v), !.wrap = st.wrap \/ Wraps(v),
               !.outside = st.outside \/ (InArray(st.luma, i) /\ ~InRegion(st, i)
                                               /\ Load(st.luma, i) # Mask8(v))]

PutRow(st, i, v) ==
    [st EXCEPT !.rowBuf = Store(st.rowBuf, i, v), !.wrap = st.wrap \/ Wraps(v)]

PutCol(st, i, v) ==
    [st EXCEPT !.colBuf = Store(st.colBuf, i, v), !.wrap = st.wrap \/ Wraps(v)]

(***************************************************************************)
(* waveletFwdHaar (main.js 569-628): forward lifting-scheme Haar.          *)
(***************************************************************************)
\* HaarFwdPair with the difference taken as a - b
HaarFwdPairReversed(p, q) ==
    LET a0 == Shl(p, 2)
        b0 == Shl(q, 2)
        b1 == Shr(a0 - b0, 1)
    IN  [avg |-> b0 + b1, diff |-> b1]

\* HaarFwdPair without the << 2 of lines 590-591 / 610-611
HaarFwdPairUnscaled(p, q) ==
    LET b1 == Shr(q - p, 1)
    IN  [avg |-> p + b1, diff |-> b1]

\* one (x, x+1) or (y, y+1) pair, lines 590-593 and 610-613: the scaled
\* average and difference, before the >> 2 and the mask
HaarFwdPair(p, q) ==
    LET a0 == Shl(p, 2)
        b0 == Shl(q, 2)
        b1 == Shr(b0 - a0, 1)
        a1 == a0 + b1
    IN  [avg |-> a1, diff |-> b1]

\* for (let x=0; x<cols; x+=2) { ... }   lines 588-597
RECURSIVE FwdHaarRowPairs(_, _, _)
FwdHaarRowPairs(st, rowBase, cols) ==
    IF st.x >= cols THEN st
    ELSE LET x  == st.x
             r  == HaarFwdPair(Load(st.luma, rowBase + x), Load(st.luma, rowBase + x + 1))
             s0 == Reads(st, {rowBase + x, rowBase + x + 1})
             s1 == PutRow(s0, x \div 2, Shr(r.avg, 2))
             s2 == PutRow(s1, (cols + x) \div 2, Shr(r.diff, 2))
         IN  FwdHaarRowPairs(SetX(s2, x + 2), rowBase, cols)

\* for (let x=0; x<cols; x++) { luma[rowBase+x] = rowBuf[x]; }
RECURSIVE CopyRow(_, _, _)
CopyRow(st, rowBase, cols) ==
    IF st.x >= cols THEN st
    ELSE LET x == st.x
         IN  CopyRow(SetX(PutLuma(st, rowBase + x, Load(st.rowBuf, x)), x + 1), rowBase, cols)

\* for (let y=0; y<rows; y++) { luma[(y*w)+x] = colBuf[y]; }
RECURSIVE CopyCol(_, _, _, _)
CopyCol(st, ww, rows, x) ==
    IF st.y >= rows THEN st
    ELSE LET y == st.y
         IN  CopyCol(SetY(PutLuma(st, (y * ww) + x, Load(st.colBuf, y)), y + 1), ww, rows, x)

\* for (let y=0; y<rows; y+=1) { ... }   lines 585-602
RECURSIVE FwdHaarRows(_, _, _, _)
FwdHaarRows(st, ww, cols, rows) ==
    IF st.y >= rows THEN st
    ELSE LET y  == st.y
             s1 == FwdHaarRowPairs(SetX(st, 0), y * ww, cols)
             s2 == CopyRow(SetX(s1, 0), y * ww, cols)
         IN  FwdHaarRows(SetY(s2, y + 1), ww, cols, rows)

\* for (let y=0; y<rows; y+=2) { ... }   lines 606-621; sq is the value of
\* squash && level==levels && (x<(cols>>1)) for this column
RECURSIVE FwdHaarColPairs(_, _, _, _, _, _)
FwdHaarColPairs(st, ww, rows, x, sq, sqbias) ==
    IF st.y >= rows THEN st
    ELSE LET y   == st.y
             px0 == (y * ww) + x
             px1 == px0 + ww
             r   == HaarFwdPair(Load(st.luma, px0), Load(st.luma, px1))
             avg == IF sq THEN sqbias ELSE Mask8(Shr(r.avg, 2))
             s0  == Reads(st, {px0, px1})
             s1  == PutCol(s0, y \div 2, avg)
             s2  == PutCol(s1, (rows + y) \div 2, Shr(r.diff, 2))
         IN  FwdHaarColPairs(SetY(s2, y + 2), ww, rows, x, sq, sqbias)

\* the column pass left out: the level ends after its row pass
FwdHaarColsSkipped(st, ww, cols, rows, sqLevel, sqbias) == st

\* for (let x=0; x<cols; x+=1) { ... }   lines 604-626
RECURSIVE FwdHaarCols(_, _, _, _, _, _)
FwdHaarCols(st, ww, cols, rows, sqLevel, sqbias) ==
    IF st.x >= cols THEN st
    ELSE LET x  == st.x
             sq == sqLevel /\ x < Shr(cols, 1)
             s1 == FwdHaarColPairs(SetY(st, 0), ww, rows, x, sq, sqbias)
             s2 == CopyCol(SetY(s1, 0), ww, rows, x)
         IN  FwdHaarCols(SetX(s2, x + 1), ww, cols, rows, sqLevel, sqbias)

\* FwdHaarLevel with the squash substitution made at every level
FwdHaarLevelSquashAll(st, ww, hh, level, lv, squash, sqbias) ==
    LET cols == Shr(ww, level - 1)
        rows == Shr(hh, level - 1)
        s0   == Mark(EnterLevel(st, ww, hh, level), level, "rows")
        s1   == FwdHaarRows(SetY(s0, 0), ww, cols, rows)
        s2   == Mark(s1, level, "cols")
    IN  FwdHaarCols(SetX(s2, 0), ww, cols, rows, squash, sqbias)

\* the body of the level loop, lines 582-626
FwdHaarLevel(st, ww, hh, level, lv, squash, sqbias) ==
    LET cols == Shr(ww, level - 1)
        rows == Shr(hh, level - 1)
        s0   == Mark(EnterLevel(st, ww, hh, level), level, "rows")
        s1   == FwdHaarRows(SetY(s0, 0), ww, cols, rows)
        s2   == Mark(s1, level, "cols")
    IN  FwdHaarCols(SetX(s2, 0), ww, cols, rows, squash /\ level = lv, sqbias)

\* for (let level=1; level<=levels; level++) { ... }
RECURSIVE FwdHaarLevels(_, _, _, _, _, _)
FwdHaarLevels(st, ww, hh, lv, squash, sqbias) ==
    IF st.level > lv THEN st
    ELSE LET level == st.level
             s1    == FwdHaarLevel(st, ww, hh, level, lv, squash, sqbias)
         IN  FwdHaarLevels(SetLevel(s1, level + 1), ww, hh, lv, squash, sqbias)

\* waveletFwdHaar with the test of line 616 never taken
waveletFwdHaarUnsquashed(ww, hh, lv, buf, squash, sqbias) ==
    FwdHaarLevels(SetLevel(Work(ww, hh, buf), 1), ww, hh, lv, FALSE, sqbias)

\* squash and sqbias are SQUASH.checked and Number(SQBIAS.value)
waveletFwdHaar(ww, hh, lv, buf, squash, sqbias) ==
    FwdHaarLevels(SetLevel(Work(ww, hh, buf), 1), ww, hh, lv, squash, sqbias)

(***************************************************************************)
(* waveletInvHaar: the inverse Haar transform.  main.js 149-216 is the     *)
(* variant shaped per level by a noise gate, a gain and a bias; main.js    *)
(* 631-688 is the later variant without shaping.                           *)
(***************************************************************************)
\* NoiseGate with the comparison reversed: differences above the threshold
\* are zeroed
NoiseGateAbove(b, ngate) == IF Abs(b) > ngate THEN 0 ELSE b

\* b = Math.abs(b) < ngate ? 0 : b      lines 170, 197
NoiseGate(b, ngate) == IF Abs(b) < ngate THEN 0 ELSE b

\* HaarInvPairShaped without the clamp of lines 177-178 / 204-205
HaarInvPairShapedUnclamped(avg, diffByte, ngate, gain, biasBoost) ==
    LET b0 == NoiseGate(SignExtend8(diffByte), ngate)
        a1 == avg - b0
        b1 == Shl(b0, 1) + a1
    IN  [a |-> Shr(a1, gain) + biasBoost, b |-> Shr(b1, gain) + biasBoost]

\* HaarInvPairShaped with the bias added before the gain shift
HaarInvPairShapedBiasFirst(avg, diffByte, ngate, gain, biasBoost) ==
    LET b0 == NoiseGate(SignExtend8(diffByte), ngate)
        a1 == avg - b0
        b1 == Shl(b0, 1) + a1
    IN  [a |-> Clamp255(Shr(a1 + biasBoost, gain)),
         b |-> Clamp255(Shr(b1 + biasBoost, gain))]

\* lines 168-178 / 195-205: one (average, difference) pair back into a pixel
\* pair; the values are those handed to the & 0xff of lines 180-181
HaarInvPairShaped(avg, diffByte, ngate, gain, biasBoost) ==
    LET b0 == NoiseGate(SignExtend8(diffByte), ngate)
        a1 == avg - b0
        b1 == Shl(b0, 1) + a1
        a2 == Shr(a1, gain) + biasBoost
        b2 == Shr(b1, gain) + biasBoost
    IN  [a |-> Clamp255(a2), b |-> Clamp255(b2)]

\* HaarInvPair with the difference byte read unsigned (no << 24 >> 24)
HaarInvPairUnsigned(avg, diffByte) ==
    LET b0 == diffByte
        a1 == avg - b0
        b1 == Shl(b0, 1) + a1
    IN  [a |-> Clamp255(a1), b |-> Clamp255(b1)]

\* lines 646-653 / 670-677: the pair step of the variant without shaping
HaarInvPair(avg, diffByte) ==
    LET b0 == SignExtend8(diffByte)
        a1 == avg - b0
        b1 == Shl(b0, 1) + a1
    IN  [a |-> Clamp255(a1), b |-> Clamp255(b1)]

\* the level's parameters: shaped is FALSE for the variant without shaping
InvPair(avg, diffByte, prm) ==
    IF prm.shaped
    THEN HaarInvPairShaped(avg, diffByte, prm.ngate, prm.gain, prm.biasBoost)
    ELSE HaarInvPair(avg, diffByte)

\* for (let y=0; y<rows; y+=2) { ... }   lines 165-182 / 643-657
RECURSIVE InvHaarColPairs(_, _, _, _, _)
InvHaarColPairs(st, ww, rows, x, prm) ==
    IF st.y >= rows THEN st
    ELSE LET y      == st.y
             pxAvg  == (ww * (y \div 2)) + x
             pxDiff == (ww * ((rows + y) \div 2)) + x
             r      == InvPair(Load(st.luma, pxAvg), Load(st.luma, pxDiff), prm)
             s0     == Reads(st, {pxAvg, pxDiff})
             s1     == PutCol(s0, y, r.a)
             s2     == PutCol(s1, y + 1, r.b)
         IN  InvHaarColPairs(SetY(s2, y + 2), ww, rows, x, prm)

\* for (let x=0; x<cols; x+=1) { ... }   lines 163-187 / 641-662
RECURSIVE InvHaarCols(_, _, _, _, _)
InvHaarCols(st, ww, cols, rows, prm) ==
    IF st.x >= cols THEN st
    ELSE LET x  == st.x
             s1 == InvHaarColPairs(SetY(st, 0), ww, rows, x, prm)
             s2 == CopyCol(SetY(s1, 0), ww, rows, x)
         IN  InvHaarCols(SetX(s2, x + 1), ww, cols, rows, prm)

\* for (let x=0; x<cols; x+=2) { ... }   lines 192-209 / 667-681
RECURSIVE InvHaarRowPairs(_, _, _, _)
InvHaarRowPairs(st, rowBase, cols, prm) ==
    IF st.x >= cols THEN st
    ELSE LET x      == st.x
             pxAvg  == rowBase + (x \div 2)
             pxDiff == rowBase + ((cols + x) \div 2)
             r      == InvPair(Load(st.luma, pxAvg), Load(st.luma, pxDiff), prm)
             s0     == Reads(st, {pxAvg, pxDiff})
             s1     == PutRow(s0, x, r.a)
             s2     == PutRow(s1, x + 1, r.b)
         IN  InvHaarRowPairs(SetX(s2, x + 2), rowBase, cols, prm)

\* for (let y=0; y<rows; y+=1) { ... }   lines 189-214 / 664-686
RECURSIVE InvHaarRows(_, _, _, _, _)
InvHaarRows(st, ww, cols, rows, prm) ==
    IF st.y >= rows THEN st
    ELSE LET y  == st.y
             s1 == InvHaarRowPairs(SetX(st, 0), y * ww, cols, prm)
             s2 == CopyRow(SetX(s1, 0), y * ww, cols)
         IN  InvHaarRows(SetY(s2, y + 1), ww, cols, rows, prm)

\* InvHaarLevel with the two passes exchanged: rows first, then columns
InvHaarLevelRowsFirst(st, ww, hh, level, prm) ==
    LET cols == Shr(ww, level - 1)
        rows == Shr(hh, level - 1)
        s0   == Mark(EnterLevel(st, ww, hh, level), level, "rows")
        s1   == InvHaarRows(SetY(s0, 0), ww, cols, rows, prm)
        s2   == Mark(s1, level, "cols")
    IN  InvHaarCols(SetX(s2, 0), ww, cols, rows, prm)

\* the body of the level loop: columns first, then rows
InvHaarLevel(st, ww, hh, level, prm) ==
    LET cols == Shr(ww, level - 1)
        rows == Shr(hh, level - 1)
        s0   == Mark(EnterLevel(st, ww, hh, level), level, "cols")
        s1   == InvHaarCols(SetX(s0, 0), ww, cols, rows, prm)
        s2   == Mark(s1, level, "rows")
    IN  InvHaarRows(SetY(s2, 0), ww, cols, rows, prm)

Unshaped == [shaped |-> FALSE, ngate |-> 0, gain |-> 0, biasBoost |-> 0]

\* for (let level=levels; level>0; level--) { ... }   lines 634-687
RECURSIVE InvHaarLevels(_, _, _)
InvHaarLevels(st, ww, hh) ==
    IF st.level <= 0 THEN st
    ELSE LET level == st.level
             s1    == InvHaarLevel(st, ww, hh, level, Unshaped)
         IN  InvHaarLevels(SetLevel(s1, level - 1), ww, hh)

waveletInvHaar(ww, hh, lv, buf) ==
    InvHaarLevels(SetLevel(Work(ww, hh, buf), lv), ww, hh)

\* noiseGates[level], gains[level], biases[level]: an index past the end of
\* the array reads undefined
ArrayGet(arr, i) ==
    IF InArray(arr, i) THEN [def |-> TRUE, val |-> arr[i + 1]]
    ELSE [def |-> FALSE, val |-> 0]

\* lines 153-156: the parameters the level runs with.  Math.abs(b) < undefined
\* is false, a >> undefined is a >> 0 and undefined > 0 is false, so an
\* undefined parameter acts as 0
LevelParams(level, noiseGates, gains, biases) ==
    LET ngate == ArrayGet(noiseGates, level)
        gain  == ArrayGet(gains, level)
        bias  == ArrayGet(biases, level)
    IN  [shaped    |-> TRUE,
         ngate     |-> ngate.val,
         gain      |-> gain.val,
         bias      |-> bias.val,
         biasBoost |-> IF bias.val > 0 THEN Shl(1, bias.val) ELSE 0,
         defined   |-> ngate.def /\ gain.def /\ bias.def]

\* for (let level=levels; level>0; level--) { ... }   lines 152-215
RECURSIVE InvHaarShapedLevels(_, _, _, _, _, _)
InvHaarShapedLevels(st, ww, hh, noiseGates, gains, biases) ==
    IF st.level <= 0 THEN st
    ELSE LET level == st.level
             prm   == LevelParams(level, noiseGates, gains, biases)
             s1    == InvHaarLevel(st, ww, hh, level, prm)
         IN  InvHaarShapedLevels(SetLevel(s1, level - 1), ww, hh,
                                 noiseGates, gains, biases)

\* waveletInvHaar(w, h, levels, luma, noiseGates, gains, biases), main.js 149
waveletInvHaarShaped(ww, hh, lv, buf, noiseGates, gains, biases) ==
    InvHaarShapedLevels(SetLevel(Work(ww, hh, buf), lv), ww, hh,
                        noiseGates, gains, biases)

(***************************************************************************)
(* waveletFwdLinear (main.js 447-511): forward linear lifting transform,   *)
(* a predict step with the difference stored at half scale, no update.     *)
(***************************************************************************)
\* diff = (diff < -128) ? -128 : ((diff > 127) ? 127 : diff)
ClampS8(v) == IF v < -128 THEN -128 ELSE IF v > 127 THEN 127 ELSE v

\* lines 471-473 / 492-494; an odd index past the end of the array reads
\* undefined, undefined - prediction is NaN and NaN >> 1 is 0
LinearFwdDiff(buf, even1, odd, even2) ==
    LET prediction == Shr(Load(buf, even1) + Load(buf, even2), 1)
        diff       == IF InArray(buf, odd) THEN Shr(Load(buf, odd) - prediction, 1) ELSE 0
    IN  ClampS8(diff)

\* for (let x=0; x<cols; x+=2) { ... }   lines 467-475
RECURSIVE FwdLinearRowPredict(_, _, _)
FwdLinearRowPredict(st, rowBase, cols) ==
    IF st.x >= cols THEN st
    ELSE LET x     == st.x
             even1 == rowBase + x
             odd   == rowBase + x + 1
             even2 == rowBase + x + (IF x + 2 < cols THEN 2 ELSE 0)
             diff  == LinearFwdDiff(st.luma, even1, odd, even2)
             s0    == Reads(st, {even1, odd, even2})
         IN  FwdLinearRowPredict(SetX(PutLuma(s0, odd, diff), x + 2), rowBase, cols)

\* for (let x=0; x<cols; x+=2) { ... }   lines 477-480
RECURSIVE DeinterleaveRow(_, _, _)
DeinterleaveRow(st, rowBase, cols) ==
    IF st.x >= cols THEN st
    ELSE LET x  == st.x
             s0 == Reads(st, {rowBase + x, rowBase + x + 1})
             s1 == PutRow(s0, x \div 2, Load(st.luma, rowBase + x))
             s2 == PutRow(s1, (cols + x) \div 2, Load(st.luma, rowBase + x + 1))
         IN  DeinterleaveRow(SetX(s2, x + 2), rowBase, cols)

\* for (let y=0; y<rows; y+=1) { ... }   lines 464-484
RECURSIVE FwdLinearRows(_, _, _, _)
FwdLinearRows(st, ww, cols, rows) ==
    IF st.y >= rows THEN st
    ELSE LET y  == st.y
             s1 == FwdLinearRowPredict(SetX(st, 0), y * ww, cols)
             s2 == DeinterleaveRow(SetX(s1, 0), y * ww, cols)
             s3 == CopyRow(SetX(s2, 0), y * ww, cols)
         IN  FwdLinearRows(SetY(s3, y + 1), ww, cols, rows)

\* for (let y=0; y<rows; y+=2) { ... }   lines 488-496
RECURSIVE FwdLinearColPredict(_, _, _, _)
FwdLinearColPredict(st, ww, rows, x) ==
    IF st.y >= rows THEN st
    ELSE LET y     == st.y
             even1 == (y * ww) + x
             odd   == even1 + ww
             even2 == IF y + 2 < rows THEN odd + ww ELSE even1
             diff  == LinearFwdDiff(st.luma, even1, odd, even2)
             s0    == Reads(st, {even1, odd, even2})
         IN  FwdLinearColPredict(SetY(PutLuma(s0, odd, diff), y + 2), ww, rows, x)

\* for (let y=0; y<rows; y+=2) { ... }   lines 498-505
RECURSIVE DeinterleaveCol(_, _, _, _, _, _)
DeinterleaveCol(st, ww, rows, x, sq, sqbias) ==
    IF st.y >= rows THEN st
    ELSE LET y   == st.y
             avg == IF sq THEN sqbias ELSE Load(st.luma, (y * ww) + x)
             s0  == Reads(st, {(y * ww) + x, ((y + 1) * ww) + x})
             s1  == PutCol(s0, y \div 2, avg)
             s2  == PutCol(s1, (rows + y) \div 2, Load(st.luma, ((y + 1) * ww) + x))
         IN  DeinterleaveCol(SetY(s2, y + 2), ww, rows, x, sq, sqbias)

\* for (let x=0; x<cols; x+=1) { ... }   lines 486-509
RECURSIVE FwdLinearCols(_, _, _, _, _, _)
FwdLinearCols(st, ww, cols, rows, sqLevel, sqbias) ==
    IF st.x >= cols THEN st
    ELSE LET x  == st.x
             sq == sqLevel /\ x < Shr(cols, 1)
             s1 == FwdLinearColPredict(SetY(st, 0), ww, rows, x)
             s2 == DeinterleaveCol(SetY(s1, 0), ww, rows, x, sq, sqbias)
             s3 == CopyCol(SetY(s2, 0), ww, rows, x)
         IN  FwdLinearCols(SetX(s3, x + 1), ww, cols, rows, sqLevel, sqbias)

\* the body of the level loop, lines 461-509
FwdLinearLevel(st, ww, hh, level, lv, squash, sqbias) ==
    LET cols == Shr(ww, level - 1)
        rows == Shr(hh, level - 1)
        s0   == Mark(EnterLevel(st, ww, hh, level), level, "rows")
        s1   == FwdLinearRows(SetY(s0, 0), ww, cols, rows)
        s2   == Mark(s1, level, "cols")
    IN  FwdLinearCols(SetX(s2, 0), ww, cols, rows, squash /\ level = lv, sqbias)

\* for (let level=1; level<=levels; level++) { ... }
RECURSIVE FwdLinearLevels(_, _, _, _, _, _)
FwdLinearLevels(st, ww, hh, lv, squash, sqbias) ==
    IF st.level > lv THEN st
    ELSE LET level == st.level
             s1    == FwdLinearLevel(st, ww, hh, level, lv, squash, sqbias)
         IN  FwdLinearLevels(SetLevel(s1, level + 1), ww, hh, lv, squash, sqbias)

waveletFwdLinear(ww, hh, lv, buf, squash, sqbias) ==
    FwdLinearLevels(SetLevel(Work(ww, hh, buf), 1), ww, hh, lv, squash, sqbias)

(***************************************************************************)
(* waveletInvLinear (main.js 514-566): inverse linear lifting transform.   *)
(***************************************************************************)
\* lines 535-538 / 558-561: luma[odd] << 24 >> 23 is the sign-extended byte
\* doubled; the result is the value handed to the & 0xff
LinearInvOdd(buf, even1, odd, even2) ==
    LET prediction == Shr(Load(buf, even1) + Load(buf, even2), 1)
        diff       == Shl(SignExtend8(Load(buf, odd)), 1)
    IN  Clamp255(diff + prediction)

\* for (let y=0; y<rows; y++) { colBuf[y] = luma[(y*w)+x]; }
RECURSIVE SaveCol(_, _, _, _)
SaveCol(st, ww, rows, x) ==
    IF st.y >= rows THEN st
    ELSE LET y == st.y
             s0 == Reads(st, {(y * ww) + x})
         IN  SaveCol(SetY(PutCol(s0, y, Load(st.luma, (y * ww) + x)), y + 1), ww, rows, x)

\* for (let y=0; y<rows; y+=2) { ... }   lines 526-529
RECURSIVE InterleaveCol(_, _, _, _)
InterleaveCol(st, ww, rows, x) ==
    IF st.y >= rows THEN st
    ELSE LET y  == st.y
             s1 == PutLuma(st, (y * ww) + x, Load(st.colBuf, y \div 2))
             s2 == PutLuma(s1, ((y + 1) * ww) + x, Load(st.colBuf, (rows + y) \div 2))
         IN  InterleaveCol(SetY(s2, y + 2), ww, rows, x)

\* for (let y=0; y<rows; y+=2) { ... }   lines 531-540
RECURSIVE InvLinearColRestore(_, _, _, _)
InvLinearColRestore(st, ww, rows, x) ==
    IF st.y >= rows THEN st
    ELSE LET y     == st.y
             even1 == (y * ww) + x
             odd   == even1 + ww
             even2 == IF y + 2 < rows THEN odd + ww ELSE even1
             v     == LinearInvOdd(st.luma, even1, odd, even2)
             s0    == Reads(st, {even1, odd, even2})
         IN  InvLinearColRestore(SetY(PutLuma(s0, odd, v), y + 2), ww, rows, x)

\* for (let x=0; x<cols; x+=1) { ... }   lines 521-541
RECURSIVE InvLinearCols(_, _, _, _)
InvLinearCols(st, ww, cols, rows) ==
    IF st.x >= cols THEN st
    ELSE LET x  == st.x
             s1 == SaveCol(SetY(st, 0), ww, rows, x)
             s2 == InterleaveCol(SetY(s1, 0), ww, rows, x)
             s3 == InvLinearColRestore(SetY(s2, 0), ww, rows, x)
         IN  InvLinearCols(SetX(s3, x + 1), ww, cols, rows)

\* SaveRow left out: the interleave then reads a rowBuf that was never
\* filled from the row
SaveRowSkipped(st, rowBase, cols) == st

\* for (let x=0; x<cols; x++) { rowBuf[x] = luma[rowBase+x]; }
RECURSIVE SaveRow(_, _, _)
SaveRow(st, rowBase, cols) ==
    IF st.x >= cols THEN st
    ELSE LET x == st.x
             s0 == Reads(st, {rowBase + x})
         IN  SaveRow(SetX(PutRow(s0, x, Load(st.luma, rowBase + x)), x + 1), rowBase, cols)

\* for (let x=0; x<cols; x+=2) { ... }   lines 549-552
RECURSIVE InterleaveRow(_, _, _)
InterleaveRow(st, rowBase, cols) ==
    IF st.x >= cols THEN st
    ELSE LET x  == st.x
             s1 == PutLuma(st, rowBase + x, Load(st.rowBuf, x \div 2))
             s2 == PutLuma(s1, rowBase + x + 1, Load(st.rowBuf, (cols + x) \div 2))
         IN  InterleaveRow(SetX(s2, x + 2), rowBase, cols)

\* for (let x=0; x<cols; x+=2) { ... }   lines 554-563
RECURSIVE InvLinearRowRestore(_, _, _)
InvLinearRowRestore(st, rowBase, cols) ==
    IF st.x >= cols THEN st
    ELSE LET x     == st.x
             even1 == rowBase + x
             odd   == rowBase + x + 1
             even2 == rowBase + x + (IF x + 2 < cols THEN 2 ELSE 0)
             v     == LinearInvOdd(st.luma, even1, odd, even2)
             s0    == Reads(st, {even1, odd, even2})
         IN  InvLinearRowRestore(SetX(PutLuma(s0, odd, v), x + 2), rowBase, cols)

\* for (let y=0; y<rows; y+=1) { ... }   lines 543-564
RECURSIVE InvLinearRows(_, _, _, _)
InvLinearRows(st, ww, cols, rows) ==
    IF st.y >= rows THEN st
    ELSE LET y  == st.y
             s1 == SaveRow(SetX(st, 0), y * ww, cols)
             s2 == InterleaveRow(SetX(s1, 0), y * ww, cols)
             s3 == InvLinearRowRestore(SetX(s2, 0), y * ww, cols)
         IN  InvLinearRows(SetY(s3, y + 1), ww, cols, rows)

\* the body of the level loop, lines 518-564
InvLinearLevel(st, ww, hh, level) ==
    LET cols == Shr(ww, level - 1)
        rows == Shr(hh, level - 1)
        s0   == Mark(EnterLevel(st, ww, hh, level), level, "cols")
        s1   == InvLinearCols(SetX(s0, 0), ww, cols, rows)
        s2   == Mark(s1, level, "rows")
    IN  InvLinearRows(SetY(s2, 0), ww, cols, rows)

\* for (let level=levels; level>0; level--) { ... }
RECURSIVE InvLinearLevels(_, _, _)
InvLinearLevels(st, ww, hh) ==
    IF st.level <= 0 THEN st
    ELSE LET level == st.level
             s1    == InvLinearLevel(st, ww, hh, level)
         IN  InvLinearLevels(SetLevel(s1, level - 1), ww, hh)

waveletInvLinear(ww, hh, lv, buf) ==
    InvLinearLevels(SetLevel(Work(ww, hh, buf), lv), ww, hh)


(***************************************************************************)
(* Inputs of the model.                                                    *)
(***************************************************************************)
\* sample values the input buffers are built from
SampleVals == {0, 1, 255}

Dims == 1..MaxDim

\* a buffer of ww x hh samples: the 2x2 blocks alternate, as on a chess
\* board, between the tile t (4 samples) and the constant c
TiledBuffer(ww, hh, t, c) ==
    [j \in 1..(ww * hh) |->
        LET i == j - 1
            x == i % ww
            y == i \div ww
        IN  IF ((x \div 2) + (y \div 2)) % 2 = 0
            THEN t[1 + (x % 2) + (2 * (y % 2))]
            ELSE c]

Buffers(ww, hh) ==
    {TiledBuffer(ww, hh, t, c) : t \in [1..4 -> SampleVals], c \in SampleVals}

\* ww and hh are divisible by 2^lv
Divisible(ww, hh, lv) == ww % Pow2(lv) = 0 /\ hh % Pow2(lv) = 0

\* the camera session when the script has loaded (main.js 385-389, 874-885)
\* in a browser that has navigator.mediaDevices and requestVideoFrameCallback:
\* the button is off, STREAM is null, nothing is pending; live counts the
\* streams getUserMedia delivered whose tracks have not ended, nullPause
\* records a call of pauseVideo that found STREAM null, and torun counts the
\* frame callbacks the presented frame has still to call
NoCam ==
    [on |-> FALSE, stream |-> "null", requests |-> 0, callbacks |-> 0,
     playing |-> FALSE, ondevicechange |-> FALSE, live |-> 0, nullPause |-> FALSE,
     mediaDevices |-> TRUE, rvfc |-> TRUE, torun |-> 0]

\* values of the controls that no call of the running specification reads
NoCfg == [squash |-> FALSE, sqbias |-> 0]

\* six controls all set to v (the arrays handleNewFrame builds, lines 224-247)
SixOf(v) == <<v, v, v, v, v, v>>

(***************************************************************************)
(* SpecHaar: waveletFwdHaar followed by waveletInvHaar on one buffer.      *)
(***************************************************************************)
HaarInit ==
    /\ pc = "ready"
    /\ w \in Dims
    /\ h \in Dims
    /\ levels \in 1..MaxLevels
    /\ Divisible(w, h, levels)
    /\ luma \in Buffers(w, h)
    /\ luma0 = luma
    /\ rgba = <<>>
    /\ rgba0 = <<>>
    /\ wrap = FALSE
    /\ cfg = [squash |-> FALSE, sqbias |-> 160]
    /\ used = <<>>
    /\ cam = NoCam

\* waveletFwdHaar(w, h, levels, luma)
CallFwdHaar ==
    /\ pc = "ready"
    /\ LET st == waveletFwdHaar(w, h, levels, luma, cfg.squash, cfg.sqbias)
       IN  /\ luma' = st.luma
           /\ wrap' = st.wrap
    /\ pc' = "fwdHaar"
    /\ UNCHANGED <<w, h, levels, luma0, rgba, rgba0, cfg, used, cam>>

\* waveletInvHaar(w, h, levels, luma), the variant of main.js 631
CallInvHaar ==
    /\ pc = "fwdHaar"
    /\ LET st == waveletInvHaar(w, h, levels, luma)
       IN  /\ luma' = st.luma
           /\ wrap' = st.wrap
    /\ pc' = "invHaar"
    /\ UNCHANGED <<w, h, levels, luma0, rgba, rgba0, cfg, used, cam>>

\* waveletInvHaar(w, h, levels, luma, noiseGates, gains, biases), the variant
\* of main.js 149, with every gate, gain and bias control at 0
CallInvHaarNull ==
    /\ pc = "fwdHaar"
    /\ LET st == waveletInvHaarShaped(w, h, levels, luma, SixOf(0), SixOf(0), SixOf(0))
       IN  /\ luma' = st.luma
           /\ wrap' = st.wrap
    /\ pc' = "invHaarShaped"
    /\ UNCHANGED <<w, h, levels, luma0, rgba, rgba0, cfg, used, cam>>

HaarNext == CallFwdHaar \/ CallInvHaar \/ CallInvHaarNull

SpecHaar == HaarInit /\ [][HaarNext]_vars

(***************************************************************************)
(* SpecLinear: waveletFwdLinear followed by waveletInvLinear.              *)
(***************************************************************************)
LinearInit ==
    /\ pc = "ready"
    /\ w \in Dims
    /\ h \in Dims
    /\ levels \in 1..MaxLevels
    /\ Divisible(w, h, levels)
    /\ luma \in Buffers(w, h)
    /\ luma0 = luma
    /\ rgba = <<>>
    /\ rgba0 = <<>>
    /\ wrap = FALSE
    /\ cfg = [squash |-> FALSE, sqbias |-> 160]
    /\ used = <<>>
    /\ cam = NoCam

\* waveletFwdLinear(w, h, levels, luma)
CallFwdLinear ==
    /\ pc = "ready"
    /\ LET st == waveletFwdLinear(w, h, levels, luma, cfg.squash, cfg.sqbias)
       IN  /\ luma' = st.luma
           /\ wrap' = st.wrap
    /\ pc' = "fwdLinear"
    /\ UNCHANGED <<w, h, levels, luma0, rgba, rgba0, cfg, used, cam>>

\* waveletInvLinear(w, h, levels, luma)
CallInvLinear ==
    /\ pc = "fwdLinear"
    /\ LET st == waveletInvLinear(w, h, levels, luma)
       IN  /\ luma' = st.luma
           /\ wrap' = st.wrap
    /\ pc' = "invLinear"
    /\ UNCHANGED <<w, h, levels, luma0, rgba, rgba0, cfg, used, cam>>

LinearNext == CallFwdLinear \/ CallInvLinear

SpecLinear == LinearInit /\ [][LinearNext]_vars

(***************************************************************************)
(* Claims about the wavelet round trips.                                   *)
(***************************************************************************)
\* the sample at column x, row y of a buffer of width ww
At(buf, ww, x, y) == buf[1 + (y * ww) + x]

\* the inverse Haar transform (either variant, null shaping) has run on the
\* output of the forward transform, squash disabled
HaarRoundTripDone == pc \in {"invHaar", "invHaarShaped"} /\ ~cfg.squash

\* C1 as stated: after forward Haar (squash disabled) and inverse Haar (null
\* shaping) with the same level count, on a buffer whose width and height
\* are divisible by 2^levels, every sample equals its original value.
C1_HaarRoundTripExact == HaarRoundTripDone => luma = luma0

\* C1 amended: after that round trip every sample whose column and row are
\* both multiples of 2^levels equals its original value (the other samples
\* may differ, the difference being stored at half scale in 8 bits).
C1_HaarRoundTripOrigins ==
    HaarRoundTripDone =>
        \A x \in 0..(w - 1), y \in 0..(h - 1) :
            (x % Pow2(levels) = 0 /\ y % Pow2(levels) = 0)
                => At(luma, w, x, y) = At(luma0, w, x, y)

\* a two-level round trip of the unshaped variant that changed some sample of
\* a buffer holding a (1, 0) pair at the start of its first row
C1_Witness ==
    /\ pc = "invHaar" /\ ~cfg.squash /\ levels = 2
    /\ At(luma0, w, 0, 0) = 1 /\ At(luma0, w, 1, 0) = 0
    /\ luma # luma0

\* C26: for every buffer with even width and height, one forward Haar
\* level (rows then columns, squash disabled) followed by one inverse Haar
\* level (columns then rows, gate 0, gain 0, bias 0) leaves every sample
\* within 3 of its original value, and a difference byte produced by the
\* row pass has the same sign after the column forward and inverse steps.
C26_HaarErrorBound ==
    (HaarRoundTripDone /\ levels = 1) =>
        LET afterRows == FwdHaarRows(SetY(Work(w, h, luma0), 0), w, w, h).luma
            afterCols == FwdHaarCols(SetX(Work(w, h, afterRows), 0), w, w, h, FALSE, 0).luma
            restored  == InvHaarCols(SetX(Work(w, h, afterCols), 0), w, w, h, Unshaped).luma
        IN  /\ \A i \in 1..Len(luma0) : Abs(luma[i] - luma0[i]) <= 3
            /\ \A x \in Shr(w, 1)..(w - 1), y \in 0..(h - 1) :
                   (SignExtend8(At(afterRows, w, x, y)) < 0)
                       <=> (SignExtend8(At(restored, w, x, y)) < 0)

\* the error bound of C26 alone, on the buffers whose rows never decrease
\* from an even column to the next one (no row difference is negative)
C26_ErrorBoundAscendingRows ==
    (HaarRoundTripDone /\ levels = 1
        /\ \A x \in 0..(w - 2), y \in 0..(h - 1) :
               x % 2 = 0 => At(luma0, w, x, y) <= At(luma0, w, x + 1, y)) =>
        \A i \in 1..Len(luma0) : Abs(luma[i] - luma0[i]) <= 3

\* the LinearInit round trip has run, squash disabled
LinearRoundTripDone == pc = "invLinear" /\ ~cfg.squash

\* C2 as stated: after forward Linear (squash disabled) and inverse Linear
\* with the same level count, on a buffer whose width and height are
\* divisible by 2^levels, every sample equals its original value.
C2_LinearRoundTripExact == LinearRoundTripDone => luma = luma0

\* C2 amended: after that round trip every sample whose column and row are
\* both multiples of 2^levels equals its original value (an odd-indexed
\* sample loses the low bit of its prediction residual).
C2_LinearRoundTripOrigins ==
    LinearRoundTripDone =>
        \A x \in 0..(w - 1), y \in 0..(h - 1) :
            (x % Pow2(levels) = 0 /\ y % Pow2(levels) = 0)
                => At(luma, w, x, y) = At(luma0, w, x, y)

\* a two-level Linear round trip that changed some sample of a buffer whose
\* first row starts with the pair (0, 1)
C2_Witness ==
    /\ pc = "invLinear" /\ ~cfg.squash /\ levels = 2
    /\ At(luma0, w, 0, 0) = 0 /\ At(luma0, w, 1, 0) = 1
    /\ luma # luma0

(***************************************************************************)
(* The per-pixel stages of the filter chain (main.js 396-444, 690-744).    *)
(***************************************************************************)
\* sample p of lumaFrom's result, line 409
LumaOf(rgba_, p) ==
    Shr((3 * Load(rgba_, 4 * p)) + (4 * Load(rgba_, (4 * p) + 1)) + Load(rgba_, (4 * p) + 2), 3)

\* lumaFrom(rgba), lines 407-411: a zeroed array of rgba.length >> 2 samples;
\* the loop for (i=0; i < rgba.length - 4; i += 4) fills the samples whose
\* first byte lies before rgba.length - 4
lumaFrom(rgba_) ==
    [j \in 1..Shr(Len(rgba_), 2) |->
        IF 4 * (j - 1) < Len(rgba_) - 4 THEN Mask8(LumaOf(rgba_, j - 1)) ELSE 0]

\* expandIntoRGBA without the store rgba[i+3] = 255
expandIntoRGBAKeepAlpha(luma_, rgba_) ==
    [k \in 1..Len(rgba_) |->
        LET i == k - 1
        IN  IF (i \div 4) < Len(luma_) /\ i % 4 # 3
            THEN luma_[(i \div 4) + 1]
            ELSE rgba_[k]]

\* expandIntoRGBA(luma, rgba), lines 418-425: for each sample Y the bytes
\* Y, Y, Y, 255; a store past the end of rgba is ignored
expandIntoRGBA(luma_, rgba_) ==
    [k \in 1..Len(rgba_) |->
        LET i == k - 1
        IN  IF (i \div 4) < Len(luma_)
            THEN (IF i % 4 = 3 THEN 255 ELSE luma_[(i \div 4) + 1])
            ELSE rgba_[k]]

\* line 432: the value invert stores for the sample Y
InvertValue(Y) == 255 - Y

\* onebit with the two outputs exchanged
OnebitValueSwapped(Y, bias) == IF Y < bias THEN 255 ELSE 0

\* onebit with the threshold itself mapped to 0
OnebitValueInclusive(Y, bias) == IF Y <= bias THEN 0 ELSE 255

\* line 441: the value onebit stores for the sample Y; bias is
\* Number(ONEBITBIAS.value)
OnebitValue(Y, bias) == IF Y < bias THEN 0 ELSE 255

\* lines 741-742: the value autoContrastHistogram stores for the sample Y
ContrastValue(Y, cutoff) == Clamp255(Y + cutoff)

\* invert(luma), lines 429-435
invert(luma_) ==
    [luma |-> [i \in 1..Len(luma_) |-> Mask8(InvertValue(luma_[i]))],
     wrap |-> \E i \in 1..Len(luma_) : Wraps(InvertValue(luma_[i]))]

\* onebit(luma), lines 437-444
onebit(luma_, bias) ==
    [luma |-> [i \in 1..Len(luma_) |-> Mask8(OnebitValue(luma_[i], bias))],
     wrap |-> \E i \in 1..Len(luma_) : Wraps(OnebitValue(luma_[i], bias))]

binShift == 1               \* line 691
bins == Shr(256, binShift)  \* line 692
binSize == Shl(1, binShift) \* line 693
histoShift == 10            \* line 709: histo.map(n => n >> 10)

\* lines 695-705: the smallest and the largest sample, starting from 255
\* and 0
MinLuma(luma_) ==
    LET vals == {luma_[i] : i \in 1..Len(luma_)} \cup {255}
    IN  CHOOSE m \in vals : \A v \in vals : m <= v

MaxLuma(luma_) ==
    LET vals == {luma_[i] : i \in 1..Len(luma_)} \cup {0}
    IN  CHOOSE m \in vals : \A v \in vals : m >= v

\* the number of samples equal to v
CountOf(luma_, v) == Cardinality({i \in 1..Len(luma_) : luma_[i] = v})

\* the number of samples whose value is in the set vs
RECURSIVE SumCounts(_, _)
SumCounts(luma_, vs) ==
    IF vs = {} THEN 0
    ELSE LET v == CHOOSE u \in vs : TRUE
         IN  CountOf(luma_, v) + SumCounts(luma_, vs \ {v})

\* Histogram without the scaling of line 709
HistogramUnscaled(luma_) ==
    LET vals == {luma_[i] : i \in 1..Len(luma_)}
    IN  [b \in 1..bins |->
            SumCounts(luma_, {v \in vals : Shr(v, binShift) = b - 1})]

\* lines 698-709: the count of each bin (histo[Y>>binShift] += 1 for every
\* sample Y, counted value by value), scaled down by n >> 10; element b+1
\* of the sequence is bin b
Histogram(luma_) ==
    LET vals == {luma_[i] : i \in 1..Len(luma_)}
    IN  [b \in 1..bins |->
            Shr(SumCounts(luma_, {v \in vals : Shr(v, binShift) = b - 1}),
                histoShift)]

\* the body of the loops of lines 713-722 and 724-733 for the bin i: pk is
\* the peak found so far (-1: none) and the loop's break
PeakStep(histo, i, pk) ==
    IF pk.broke THEN pk
    ELSE LET n == histo[i + 1]
         IN  IF pk.peak < 0 /\ n > 0 THEN [pk EXCEPT !.peak = i]
             ELSE IF pk.peak >= 0 /\ n < histo[pk.peak + 1] THEN [pk EXCEPT !.broke = TRUE]
             ELSE IF pk.peak >= 0 /\ n >= histo[pk.peak + 1] THEN [pk EXCEPT !.peak = i]
             ELSE pk

NoPeak == [peak |-> -1, broke |-> FALSE]

\* for(let i=0; i<histo.length; i++) { ... }: the bins lo..hi in ascending
\* order (the range is visited half by half, the lower half first)
RECURSIVE ScanUp(_, _, _, _)
ScanUp(histo, lo, hi, pk) ==
    IF lo > hi THEN pk
    ELSE IF lo = hi THEN PeakStep(histo, lo, pk)
    ELSE LET mid   == (lo + hi) \div 2
             lower == ScanUp(histo, lo, mid, pk)
         IN  IF lower.broke THEN lower ELSE ScanUp(histo, mid + 1, hi, lower)

\* for(let i=histo.length-1; i>0; i--) { ... }: the bins hi..lo in
\* descending order (the upper half first)
RECURSIVE ScanDown(_, _, _, _)
ScanDown(histo, lo, hi, pk) ==
    IF lo > hi THEN pk
    ELSE IF lo = hi THEN PeakStep(histo, lo, pk)
    ELSE LET mid   == (lo + hi) \div 2
             upper == ScanDown(histo, mid + 1, hi, pk)
         IN  IF upper.broke THEN upper ELSE ScanDown(histo, lo, mid, upper)

\* lines 711-722
FirstPeak(histo) == ScanUp(histo, 0, Len(histo) - 1, NoPeak).peak

\* lines 712, 724-733: bin 0 is not visited
LastPeak(histo) == ScanDown(histo, 1, Len(histo) - 1, NoPeak).peak

\* Cutoff with each shift applied to the whole sum, as the expressions read
\* without their inner parentheses
CutoffShiftLast(minLuma, maxLuma, firstPeak, lastPeak) ==
    IF firstPeak >= 0 /\ lastPeak >= 0 /\ firstPeak < lastPeak
    THEN Shr(127 - ((firstPeak + lastPeak) * binSize), 1)
    ELSE Shr(minLuma + (maxLuma - minLuma), 1)

\* lines 735-738
Cutoff(minLuma, maxLuma, firstPeak, lastPeak) ==
    IF firstPeak >= 0 /\ lastPeak >= 0 /\ firstPeak < lastPeak
    THEN 127 - Shr((firstPeak + lastPeak) * binSize, 1)
    ELSE minLuma + Shr(maxLuma - minLuma, 1)

\* the cutoff autoContrastHistogram computes for the buffer
CutoffOf(luma_) ==
    LET histo == Histogram(luma_)
    IN  Cutoff(MinLuma(luma_), MaxLuma(luma_),
               FirstPeak(histo), LastPeak(histo))

\* autoContrastHistogram(w, h, luma), lines 690-744 (half, line 694, is
\* computed and never read)
autoContrastHistogram(ww, hh, luma_) ==
    LET cutoff == CutoffOf(luma_)
    IN  [luma |-> [i \in 1..Len(luma_) |-> Mask8(ContrastValue(luma_[i], cutoff))],
         wrap |-> \E i \in 1..Len(luma_) : Wraps(ContrastValue(luma_[i], cutoff)),
         cutoff |-> cutoff]

(***************************************************************************)
(* SpecStages: one clamping stage of the filter chain applied to a buffer  *)
(* of stored coefficients, under a setting of the stage's parameters.      *)
(***************************************************************************)
MaxStageDim == 2    \* widths and heights of SpecStages range over 1..MaxStageDim

\* byte values of the buffers: 128 and 255 are the differences -128 and -1
CoefVals == {0, 128, 255}

StageBuffers(ww, hh) ==
    {TiledBuffer(ww, hh, t, c) : t \in [1..4 -> CoefVals], c \in CoefVals}

GateVals == {0, 128, 255}
GainVals == {0, 7}
BiasVals == {0, 7}
OnebitBiasVals == {0, 120, 255}

StagesInit ==
    /\ pc = "ready"
    /\ w \in 1..MaxStageDim
    /\ h \in 1..MaxStageDim
    /\ levels \in 1..MaxLevels
    /\ luma \in StageBuffers(w, h)
    /\ luma0 = luma
    /\ rgba = <<>>
    /\ rgba0 = <<>>
    /\ wrap = FALSE
    /\ cfg = NoCfg
    /\ used = <<>>
    /\ cam = NoCam

\* waveletInvHaar(w, h, levels, luma, noiseGates, gains, biases) of main.js
\* 149, every level's control at the same gate, gain and bias
StageInvHaarShaped ==
    /\ pc = "ready"
    /\ \E ngate \in GateVals, gain \in GainVals, bias \in BiasVals :
          LET st == waveletInvHaarShaped(w, h, levels, luma,
                                         SixOf(ngate), SixOf(gain), SixOf(bias))
          IN  /\ luma' = st.luma
              /\ wrap' = st.wrap
              /\ used' = [ngate |-> ngate, gain |-> gain, bias |-> bias]
    /\ pc' = "invHaarShaped"
    /\ UNCHANGED <<w, h, levels, luma0, rgba, rgba0, cfg, cam>>

\* waveletInvLinear(w, h, levels, luma)
StageInvLinear ==
    /\ pc = "ready"
    /\ LET st == waveletInvLinear(w, h, levels, luma)
       IN  /\ luma' = st.luma
           /\ wrap' = st.wrap
    /\ pc' = "invLinear"
    /\ UNCHANGED <<w, h, levels, luma0, rgba, rgba0, cfg, used, cam>>

\* autoContrastHistogram(w, h, luma)
StageAutoContrast ==
    /\ pc = "ready"
    /\ LET st == autoContrastHistogram(w, h, luma)
       IN  /\ luma' = st.luma
           /\ wrap' = st.wrap
           /\ used' = [cutoff |-> st.cutoff]
    /\ pc' = "autoContrast"
    /\ UNCHANGED <<w, h, levels, luma0, rgba, rgba0, cfg, cam>>

\* invert(luma)
StageInvert ==
    /\ pc = "ready"
    /\ LET st == invert(luma)
       IN  /\ luma' = st.luma
           /\ wrap' = st.wrap
    /\ pc' = "invert"
    /\ UNCHANGED <<w, h, levels, luma0, rgba, rgba0, cfg, used, cam>>

\* onebit(luma), ONEBITBIAS.value being bias
StageOnebit ==
    /\ pc = "ready"
    /\ \E bias \in OnebitBiasVals :
          LET st == onebit(luma, bias)
          IN  /\ luma' = st.luma
              /\ wrap' = st.wrap
              /\ used' = [bias |-> bias]
    /\ pc' = "onebit"
    /\ UNCHANGED <<w, h, levels, luma0, rgba, rgba0, cfg, cam>>

StagesNext ==
    \/ StageInvHaarShaped
    \/ StageInvLinear
    \/ StageAutoContrast
    \/ StageInvert
    \/ StageOnebit

SpecStages == StagesInit /\ [][StagesNext]_vars

\* the stages C3 names
ClampingStages == {"invHaarShaped", "invLinear", "autoContrast", "invert", "onebit"}

\* C3: every value that inverse Haar, inverse Linear, autoContrastHistogram,
\* invert and onebit hand to an 8-bit store of the intensity buffer lies in
\* 0..255, whatever the buffer and the gate, gain and bias: no stored sample
\* is the result of a wrap-around modulo 256.
C3_StoresClamped == (pc \in ClampingStages) => ~wrap

\* an all-255 buffer has gone through the shaped inverse Haar with bias 7 and
\* came out all 255
C3_Witness ==
    /\ pc = "invHaarShaped"
    /\ used.bias = 7
    /\ \A i \in 1..Len(luma0) : luma0[i] = 255
    /\ \A i \in 1..Len(luma) : luma[i] = 255

(***************************************************************************)
(* Spec: the frame callback handleNewFrame of main.js 747-800.  One action *)
(* is one call of the callback, from the frame it reads to the frame it    *)
(* draws.                                                                  *)
(***************************************************************************)
MaxCanvas == 4      \* CANVAS.width ranges over 1..MaxCanvas

\* RGBA pixels of the frames: white, and a transparent dark red
Pixels == {<<255, 255, 255, 255>>, <<8, 0, 0, 0>>}

\* the bytes getImageData returns for a frame of ww x hh pixels whose pixels
\* alternate, as on a chess board, between a and b
Frame(ww, hh, a, b) ==
    [k \in 1..(4 * ww * hh) |->
        LET i == (k - 1) \div 4
            x == i % ww
            y == i \div ww
        IN  IF (x + y) % 2 = 0 THEN a[1 + ((k - 1) % 4)] ELSE b[1 + ((k - 1) % 4)]]

Frames(ww, hh) == {Frame(ww, hh, a, b) : a \in Pixels, b \in Pixels}

\* the values of the select elements: those of the options of index.html
\* 69-73 and 92-95; a drop-down always has one of its options selected and
\* main.js never assigns the value of either element
TransformValues == {"None", "Haar", "Linear"}
ContrastValues == {"Histogram", "None"}

\* the controls handleNewFrame and the stages read
Controls ==
    [transform : TransformValues, invWave : BOOLEAN, contrast : ContrastValues,
     invLuma : BOOLEAN, onebit : BOOLEAN, onebitbias : {120},
     squash : BOOLEAN, sqbias : {160}]

\* switch(TRANSFORM.value) { ... }   lines 765-778: the cases "Haar" and
\* "Linear", no case and no default for "None"
TransformStage(ww, hh, lv, buf, c) ==
    CASE c.transform = "Haar" ->
            LET fwd == waveletFwdHaar(ww, hh, lv, buf, c.squash, c.sqbias).luma
            IN  IF c.invWave THEN waveletInvHaar(ww, hh, lv, fwd).luma ELSE fwd
      [] c.transform = "Linear" ->
            LET fwd == waveletFwdLinear(ww, hh, lv, buf, c.squash, c.sqbias).luma
            IN  IF c.invWave THEN waveletInvLinear(ww, hh, lv, fwd).luma ELSE fwd
      [] OTHER -> buf

\* switch(CONTRAST.value) { ... }   lines 779-783
ContrastStage(ww, hh, buf, c) ==
    IF c.contrast = "Histogram" THEN autoContrastHistogram(ww, hh, buf).luma ELSE buf

\* lines 784-790
ToneStages(buf, c) ==
    LET inverted == IF c.invLuma THEN invert(buf).luma ELSE buf
    IN  IF c.onebit THEN onebit(inverted, c.onebitbias).luma ELSE inverted

\* the subregion of each level the transform called at lines 767-775 runs,
\* lines 578-583 and 460-462: element L is level L
LevelsRun(ww, hh, lv, c) ==
    IF c.transform \in {"Haar", "Linear"}
    THEN [L \in 1..lv |-> [cols |-> Shr(ww, L - 1), rows |-> Shr(hh, L - 1)]]
    ELSE <<>>

Init ==
    /\ pc = "waiting"
    /\ w \in 1..MaxCanvas
    /\ h = w
    /\ levels \in 1..MaxLevels
    /\ cfg \in Controls
    /\ luma = <<>>
    /\ luma0 = <<>>
    /\ rgba = <<>>
    /\ rgba0 = <<>>
    /\ wrap = FALSE
    /\ used = <<>>
    /\ cam = NoCam

\* the browser has a video frame for the callback registered with
\* requestVideoFrameCallback (lines 797-799): rgba0 is what drawImage and
\* getImageData (lines 757-761) are going to read from it; the buffers of
\* the previous call are gone
VideoFrameReady ==
    /\ pc \in {"waiting", "drawn"}
    /\ rgba0' \in Frames(w, w)
    /\ rgba' = <<>>
    /\ luma' = <<>>
    /\ luma0' = <<>>
    /\ used' = <<>>
    /\ pc' = "frame"
    /\ UNCHANGED <<w, h, levels, wrap, cfg, cam>>

\* handleNewFrame(now, metadata): w and h are both CANVAS.width (lines
\* 749-750), luma0 is the result of lumaFrom (line 762) and rgba the buffer
\* handed to putImageData (line 795)
handleNewFrame ==
    /\ pc = "frame"
    /\ LET decoded == lumaFrom(rgba0)
           result  == ToneStages(ContrastStage(w, w,
                          TransformStage(w, w, levels, decoded, cfg), cfg), cfg)
       IN  /\ luma0' = decoded
           /\ luma' = result
           /\ rgba' = expandIntoRGBA(result, rgba0)
    /\ used' = LevelsRun(w, w, levels, cfg)
    /\ h' = w
    /\ pc' = "drawn"
    /\ UNCHANGED <<w, levels, rgba0, wrap, cfg, cam>>

Next == VideoFrameReady \/ handleNewFrame

Spec == Init /\ [][Next]_vars

\* C4: for an RGBA buffer of n pixels lumaFrom returns n samples and sample
\* p is (3*R_p + 4*G_p + B_p) >> 3 for every pixel p in 0..n-1, the first
\* and the last included.
C4_LumaDecode ==
    (pc = "drawn") =>
        /\ 4 * Len(luma0) = Len(rgba0)
        /\ \A p \in 0..(Len(luma0) - 1) :
              luma0[p + 1] = ((3 * rgba0[(4 * p) + 1]) + (4 * rgba0[(4 * p) + 2])
                                 + rgba0[(4 * p) + 3]) \div 8

\* C5: every level a transform runs in a frame has even, non-zero cols and
\* rows (a level count that would need an odd or degenerate subregion is
\* rejected or clamped before the frame is modified).
C5_LevelsValidated ==
    (pc = "drawn") =>
        \A L \in 1..Len(used) :
            /\ used[L].cols > 0 /\ used[L].cols % 2 = 0
            /\ used[L].rows > 0 /\ used[L].rows % 2 = 0

\* the bytes R, G, B, A of pixel p (from 0) of a colour buffer
PixelAt(buf, p) == <<buf[(4 * p) + 1], buf[(4 * p) + 2], buf[(4 * p) + 3], buf[(4 * p) + 4]>>

\* C25: when the one-bit stage is enabled, for every frame, scheme, level
\* count and setting of the other stages, every pixel of the colour buffer
\* handleNewFrame writes back is (0,0,0,255) or (255,255,255,255); with
\* one-bit disabled every pixel still has R = G = B and A = 255.
C25_BinaryOutput ==
    (pc = "drawn") =>
        /\ Len(rgba) = 4 * w * w
        /\ \A p \in 0..((w * w) - 1) :
              LET px == PixelAt(rgba, p)
              IN  /\ px[1] = px[2] /\ px[2] = px[3] /\ px[4] = 255
                  /\ cfg.onebit => px \in {<<0, 0, 0, 255>>, <<255, 255, 255, 255>>}

\* a frame drawn after a Haar transform with one-bit enabled: a white pixel
\* and a black one, the black one from a transparent pixel of the frame
C25_Witness ==
    /\ pc = "drawn"
    /\ cfg.onebit
    /\ cfg.transform = "Haar"
    /\ w = 2
    /\ PixelAt(rgba, 0) = <<255, 255, 255, 255>>
    /\ PixelAt(rgba0, 1) = <<8, 0, 0, 0>>
    /\ PixelAt(rgba, 1) = <<0, 0, 0, 255>>

(***************************************************************************)
(* SpecShaped: the frame callback of main.js 219-274, whose inverse Haar   *)
(* transform is shaped per level by six gate, gain and bias controls.      *)
(***************************************************************************)
ShapedLevels == 6   \* line 223: const levels = 6

\* waveletFwdHaar of main.js 93-146: the level loop starts at level 0 and
\* there is no squash
waveletFwdHaarFromZero(ww, hh, lv, buf) ==
    FwdHaarLevels(SetLevel(Work(ww, hh, buf), 0), ww, hh, lv, FALSE, 0)

\* the values of the controls NGATE1..6, GAIN1..6 and BAIS1..6: element k
\* is control k, which lines 224-247 put at index k-1 of the array
GateControls == {SixOf(0), <<1, 2, 3, 4, 5, 6>>}
GainControls == {SixOf(0), <<0, 1, 2, 3, 4, 5>>}
BiasControls == {SixOf(0), <<1, 2, 3, 4, 5, 6>>}

ShapedInit ==
    /\ pc = "waiting"
    /\ w \in 1..MaxStageDim
    /\ h \in 1..MaxStageDim
    /\ levels = ShapedLevels
    /\ cfg \in [ngate : GateControls, gain : GainControls, bias : BiasControls,
                invWave : BOOLEAN, invLuma : BOOLEAN]
    /\ luma = <<>>
    /\ luma0 = <<>>
    /\ rgba = <<>>
    /\ rgba0 = <<>>
    /\ wrap = FALSE
    /\ used = <<>>
    /\ cam = NoCam

\* the browser has a video frame of videoWidth x videoHeight pixels for the
\* callback (lines 221-222, 253-254)
ShapedFrameReady ==
    /\ pc \in {"waiting", "drawn"}
    /\ rgba0' \in Frames(w, h)
    /\ rgba' = <<>>
    /\ luma' = <<>>
    /\ luma0' = <<>>
    /\ used' = <<>>
    /\ pc' = "frame"
    /\ UNCHANGED <<w, h, levels, wrap, cfg, cam>>

\* handleNewFrame(now, metadata) of lines 219-274; used is, per level, what
\* lines 153-156 read for the level
handleNewFrameShaped ==
    /\ pc = "frame"
    /\ LET decoded  == lumaFrom(rgba0)
           fwd      == waveletFwdHaarFromZero(w, h, levels, decoded).luma
           inv      == IF cfg.invWave
                       THEN waveletInvHaarShaped(w, h, levels, fwd,
                                                 cfg.ngate, cfg.gain, cfg.bias).luma
                       ELSE fwd
           result   == IF cfg.invLuma THEN invert(inv).luma ELSE inv
       IN  /\ luma0' = decoded
           /\ luma' = result
           /\ rgba' = expandIntoRGBA(result, rgba0)
    /\ used' = IF cfg.invWave
               THEN [L \in 1..levels |-> LevelParams(L, cfg.ngate, cfg.gain, cfg.bias)]
               ELSE <<>>
    /\ pc' = "drawn"
    /\ UNCHANGED <<w, h, levels, rgba0, wrap, cfg, cam>>

ShapedNext == ShapedFrameReady \/ handleNewFrameShaped

SpecShaped == ShapedInit /\ [][ShapedNext]_vars

\* C7: for every level L in 1..levels the inverse Haar pass at level L runs
\* with the L-th noise-gate, gain and bias controls, and no level runs with
\* an undefined parameter.
C7_LevelParams ==
    (pc = "drawn") =>
        \A L \in 1..Len(used) :
            /\ used[L].defined
            /\ used[L].ngate = cfg.ngate[L]
            /\ used[L].gain = cfg.gain[L]
            /\ used[L].bias = cfg.bias[L]

(***************************************************************************)
(* SpecGate: the noise gate of the shaped inverse Haar transform applied   *)
(* to one stored difference byte under two thresholds.                     *)
(***************************************************************************)
\* the thresholds of the noise gate (NGATE1..6, 0..255)
Thresholds == {0, 1, 2, 64, 127, 128, 129, 255}

GateInit ==
    /\ pc = "ready"
    /\ cfg \in [d : 0..255, g1 : Thresholds, g2 : Thresholds]
    /\ cfg.g1 <= cfg.g2
    /\ w = 0 /\ h = 0 /\ levels = 0
    /\ luma = <<>> /\ luma0 = <<>> /\ rgba = <<>> /\ rgba0 = <<>>
    /\ wrap = FALSE
    /\ used = <<>>
    /\ cam = NoCam

\* lines 169-170 / 196-197 for the stored byte d, once under each threshold
ApplyGates ==
    /\ pc = "ready"
    /\ used' = [under1 |-> NoiseGate(SignExtend8(cfg.d), cfg.g1),
                under2 |-> NoiseGate(SignExtend8(cfg.d), cfg.g2)]
    /\ pc' = "gated"
    /\ UNCHANGED <<w, h, levels, luma, luma0, rgba, rgba0, wrap, cfg, cam>>

GateNext == ApplyGates

SpecGate == GateInit /\ [][GateNext]_vars

\* C8: for every stored difference byte d and thresholds g1 <= g2, the gated
\* difference under g2 is no larger in magnitude than under g1, and a
\* difference zeroed under g1 is zeroed under g2.
C8_GateMonotone ==
    (pc = "gated") =>
        /\ Abs(used.under2) <= Abs(used.under1)
        /\ (used.under1 = 0 => used.under2 = 0)

\* the byte 130 (the difference -126) passes the threshold 64 and is zeroed
\* by the threshold 127
C8_Witness ==
    /\ pc = "gated"
    /\ cfg.d = 130 /\ cfg.g1 = 64 /\ cfg.g2 = 127
    /\ used.under1 = -126 /\ used.under2 = 0

(***************************************************************************)
(* SpecOnebit: onebit applied twice to a buffer.                           *)
(***************************************************************************)
MaxToneLen == 4     \* buffers of SpecOnebit have 0..MaxToneLen samples

ToneVals == {0, 119, 120, 255}

ToneBuffers == UNION {[1..n -> ToneVals] : n \in 0..MaxToneLen}

OnebitInit ==
    /\ pc = "ready"
    /\ luma \in ToneBuffers
    /\ luma0 = luma
    /\ cfg \in [onebitbias : {0, 1, 119, 120, 121, 255}]
    /\ w = Len(luma) /\ h = 1 /\ levels = 0
    /\ rgba = <<>> /\ rgba0 = <<>>
    /\ wrap = FALSE
    /\ used = <<>>
    /\ cam = NoCam

\* onebit(luma); used is the buffer the call received
CallOnebit ==
    /\ pc \in {"ready", "once"}
    /\ LET st == onebit(luma, cfg.onebitbias)
       IN  /\ luma' = st.luma
           /\ wrap' = st.wrap
    /\ used' = luma
    /\ pc' = IF pc = "ready" THEN "once" ELSE "twice"
    /\ UNCHANGED <<w, h, levels, luma0, rgba, rgba0, cfg, cam>>

OnebitNext == CallOnebit

SpecOnebit == OnebitInit /\ [][OnebitNext]_vars

\* C9: onebit replaces each sample Y by 0 when Y < bias and by 255
\* otherwise, at every index of the buffer.
C9_OnebitThreshold ==
    (pc \in {"once", "twice"}) =>
        /\ Len(luma) = Len(used)
        /\ \A i \in 1..Len(used) :
              luma[i] = (IF used[i] < cfg.onebitbias THEN 0 ELSE 255)

\* bias 120 on [0, 119, 120, 255] gave [0, 0, 255, 255]
C9_Witness ==
    /\ pc = "once"
    /\ cfg.onebitbias = 120
    /\ luma0 = <<0, 119, 120, 255>>
    /\ luma = <<0, 0, 255, 255>>

\* C10: applying onebit twice with the same bias gives the same buffer as
\* applying it once.
C10_OnebitIdempotent == (pc = "twice") => luma = used

\* onebit has run twice on a buffer that its first run changed
C10_Witness ==
    /\ pc = "twice"
    /\ luma0 = <<119, 120>>
    /\ cfg.onebitbias = 120
    /\ luma = <<0, 255>>

(***************************************************************************)
(* The functions of the camera session (main.js 803-872) as operators on   *)
(* the record of the session.                                              *)
(***************************************************************************)
\* pauseVideo(), lines 863-872: the video is paused, the button turned off,
\* the tracks of STREAM stopped and STREAM set to null; the callbacks
\* registered with requestVideoFrameCallback are not cancelled.  With
\* STREAM null, STREAM.getTracks() throws after the button was turned off
pauseVideo(c) ==
    [c EXCEPT !.playing = FALSE, !.on = FALSE, !.stream = "null",
              !.live = IF c.stream = "active" THEN c.live - 1 ELSE c.live,
              !.nullPause = c.nullPause \/ c.stream = "null"]

\* startVideo with the button turned on when getUserMedia is called
startVideoButtonFirst(c) ==
    IF c.mediaDevices
    THEN [c EXCEPT !.requests = c.requests + 1, !.on = TRUE]
    ELSE c

\* startVideo(), lines 803-818 and 852: without navigator.mediaDevices the
\* function shows an alert and returns (lines 810-817), no request is made;
\* otherwise getUserMedia is called and the function returns, and the button
\* stays off until the promise is fulfilled
startVideo(c) ==
    IF c.mediaDevices
    THEN [c EXCEPT !.requests = c.requests + 1]
    ELSE c

\* .then((stream_) => { ... }), lines 819-845: STREAM is overwritten, the
\* tracks of the stream it held are not stopped; the frame callback is
\* registered when HAS_RVFC is true (lines 835-839)
gotStream(c) ==
    [c EXCEPT !.requests = c.requests - 1,
              !.on = TRUE,
              !.stream = "active",
              !.live = c.live + 1,
              !.ondevicechange = TRUE,
              !.callbacks = IF c.rvfc THEN c.callbacks + 1 ELSE c.callbacks,
              !.playing = TRUE]

(***************************************************************************)
(* SpecOrder: handleNewFrame (main.js 747-800) statement by statement,     *)
(* and what happens between two calls of it: the camera button is clicked, *)
(* getUserMedia delivers a stream, the user changes a control.  pc is the  *)
(* stage that has just finished, or "pending" when no handler is running;  *)
(* used is the stages run so far in the running call, in the order they    *)
(* ran.                                                                    *)
(***************************************************************************)
MaxOrderCanvas == 2     \* CANVAS.width ranges over 1..MaxOrderCanvas
MaxOrderRequests == 1   \* getUserMedia promises pending at once
MaxPending == 2         \* frame callbacks pending at once

Schemes == {"Haar", "Linear"}

\* the names of the stages: the calls of lines 762-794
ForwardOf(t) == IF t = "Haar" THEN "fwdHaar" ELSE "fwdLinear"

InverseOf(t) == IF t = "Haar" THEN "invHaar" ELSE "invLinear"

\* the controls of a run; the squash checkbox is left unchecked
OrderControls == {c \in Controls : ~c.squash}

\* the page has loaded: no handler is running, the camera is off
OrderInit ==
    /\ pc = "pending"
    /\ w \in 1..MaxOrderCanvas
    /\ h = w
    /\ levels \in 1..MaxLevels
    /\ cfg \in OrderControls
    /\ rgba0 = <<>>
    /\ luma = <<>>
    /\ luma0 = <<>>
    /\ rgba = <<>>
    /\ wrap = FALSE
    /\ used = <<>>
    /\ cam = NoCam

\* no handler is running and the video has called every callback of the
\* frame it presented
Idle == pc = "pending" /\ cam.torun = 0

\* the user changes TRANSFORM, INV_WAVE, CONTRAST, INV_LUMA or ONEBIT
\* (index.html); no handler of main.js runs, the next call of handleNewFrame
\* reads the control (lines 764-790)
ControlChanged ==
    /\ Idle
    /\ \/ \E t \in TransformValues \ {cfg.transform} :
             cfg' = [cfg EXCEPT !.transform = t]
       \/ cfg' = [cfg EXCEPT !.invWave = ~cfg.invWave]
       \/ \E c \in ContrastValues \ {cfg.contrast} :
             cfg' = [cfg EXCEPT !.contrast = c]
       \/ cfg' = [cfg EXCEPT !.invLuma = ~cfg.invLuma]
       \/ cfg' = [cfg EXCEPT !.onebit = ~cfg.onebit]
    /\ UNCHANGED <<pc, w, h, levels, luma, luma0, rgba, rgba0, wrap, used, cam>>

\* the user changes LEVELS; the next call reads it at line 751
LevelsChanged ==
    /\ Idle
    /\ levels' \in (1..MaxLevels) \ {levels}
    /\ UNCHANGED <<pc, w, h, luma, luma0, rgba, rgba0, wrap, cfg, used, cam>>

\* the click handler of the camera button, lines 875-883, between two calls
\* of handleNewFrame
ClickBetweenFrames ==
    /\ Idle
    /\ cam.on \/ cam.requests < MaxOrderRequests
    /\ cam' = IF cam.on THEN pauseVideo(cam) ELSE startVideo(cam)
    /\ UNCHANGED <<pc, w, h, levels, luma, luma0, rgba, rgba0, wrap, cfg, used>>

\* the promise of getUserMedia is fulfilled between two calls of
\* handleNewFrame, lines 819-845
StreamBetweenFrames ==
    /\ Idle
    /\ cam.requests > 0
    /\ cam.callbacks < MaxPending
    /\ cam' = gotStream(cam)
    /\ UNCHANGED <<pc, w, h, levels, luma, luma0, rgba, rgba0, wrap, cfg, used>>

\* the playing video presents a frame: it takes the list of the pending
\* callbacks and calls the first, handleNewFrame; the call copies the frame
\* to the canvas and reads it back, lines 748-761
NextFrame ==
    /\ Idle
    /\ cam.playing
    /\ cam.stream = "active"
    /\ cam.callbacks > 0
    /\ cam' = [cam EXCEPT !.callbacks = 0, !.torun = cam.callbacks - 1]
    /\ rgba0' \in Frames(w, w)
    /\ used' = <<>>
    /\ pc' = "frame"
    /\ UNCHANGED <<w, h, levels, luma, luma0, rgba, wrap, cfg>>

\* the video calls the next callback of the list it took, on the frame it
\* presented: lines 748-761 again, with the same frame
SameFrameAgain ==
    /\ pc = "pending"
    /\ cam.torun > 0
    /\ cam' = [cam EXCEPT !.torun = cam.torun - 1]
    /\ used' = <<>>
    /\ pc' = "frame"
    /\ UNCHANGED <<w, h, levels, luma, luma0, rgba, rgba0, wrap, cfg>>

\* var luma = lumaFrom(rgba);   line 762
RunDecode ==
    /\ pc = "frame"
    /\ luma' = lumaFrom(rgba0)
    /\ luma0' = luma'
    /\ used' = <<"decode">>
    /\ pc' = "decode"
    /\ UNCHANGED <<w, h, levels, rgba, rgba0, wrap, cfg, cam>>

\* case "Haar": waveletFwdHaar(...)  /  case "Linear": waveletFwdLinear(...)
\* lines 766-767 and 772-773
RunForward ==
    /\ pc = "decode"
    /\ cfg.transform \in Schemes
    /\ luma' = IF cfg.transform = "Haar"
               THEN waveletFwdHaar(w, h, levels, luma, cfg.squash, cfg.sqbias).luma
               ELSE waveletFwdLinear(w, h, levels, luma, cfg.squash, cfg.sqbias).luma
    /\ used' = Append(used, ForwardOf(cfg.transform))
    /\ pc' = ForwardOf(cfg.transform)
    /\ UNCHANGED <<w, h, levels, luma0, rgba, rgba0, wrap, cfg, cam>>

\* InverseDue without its place in the case: the inverse transform is due
\* as soon as the frame is decoded
InverseDueUnordered ==
    pc = "decode" /\ cfg.transform \in Schemes /\ cfg.invWave

\* if (INV_WAVE.checked) inside the case of the scheme, after its forward
\* transform: lines 768 and 774
InverseDue ==
    cfg.transform \in Schemes /\ pc = ForwardOf(cfg.transform) /\ cfg.invWave

\* waveletInvHaar(...) / waveletInvLinear(...)   lines 769 and 775
RunInverse ==
    /\ InverseDue
    /\ luma' = IF cfg.transform = "Haar"
               THEN waveletInvHaar(w, h, levels, luma).luma
               ELSE waveletInvLinear(w, h, levels, luma).luma
    /\ used' = Append(used, InverseOf(cfg.transform))
    /\ pc' = InverseOf(cfg.transform)
    /\ UNCHANGED <<w, h, levels, luma0, rgba, rgba0, wrap, cfg, cam>>

\* the control has left the switch of lines 765-778
AfterTransform ==
    \/ pc = "decode" /\ cfg.transform \notin Schemes
    \/ pc \in {"fwdHaar", "fwdLinear"} /\ ~cfg.invWave
    \/ pc \in {"invHaar", "invLinear"}

\* case "Histogram": autoContrastHistogram(w, h, luma);   lines 780-781
RunContrast ==
    /\ AfterTransform
    /\ cfg.contrast = "Histogram"
    /\ luma' = autoContrastHistogram(w, h, luma).luma
    /\ used' = Append(used, "contrast")
    /\ pc' = "contrast"
    /\ UNCHANGED <<w, h, levels, luma0, rgba, rgba0, wrap, cfg, cam>>

\* the control has left the switch of lines 779-783
AfterContrast ==
    \/ pc = "contrast"
    \/ AfterTransform /\ cfg.contrast # "Histogram"

\* if (INV_LUMA.checked) { invert(luma); }   lines 784-786
RunInvert ==
    /\ AfterContrast
    /\ cfg.invLuma
    /\ luma' = invert(luma).luma
    /\ used' = Append(used, "invert")
    /\ pc' = "invert"
    /\ UNCHANGED <<w, h, levels, luma0, rgba, rgba0, wrap, cfg, cam>>

AfterInvert ==
    \/ pc = "invert"
    \/ AfterContrast /\ ~cfg.invLuma

\* if(ONEBIT.checked) { onebit(luma); }   lines 788-790
RunOnebit ==
    /\ AfterInvert
    /\ cfg.onebit
    /\ luma' = onebit(luma, cfg.onebitbias).luma
    /\ used' = Append(used, "onebit")
    /\ pc' = "onebit"
    /\ UNCHANGED <<w, h, levels, luma0, rgba, rgba0, wrap, cfg, cam>>

AfterOnebit ==
    \/ pc = "onebit"
    \/ AfterInvert /\ ~cfg.onebit

\* expandIntoRGBA(luma, rgba); CTX.putImageData(imageData, 0, 0);
\* lines 794-795
RunEncode ==
    /\ AfterOnebit
    /\ rgba' = expandIntoRGBA(luma, rgba0)
    /\ used' = Append(used, "encode")
    /\ pc' = "encode"
    /\ UNCHANGED <<w, h, levels, luma, luma0, rgba0, wrap, cfg, cam>>

\* if (HAS_RVFC) { VIDEO.requestVideoFrameCallback(handleNewFrame); } and
\* the return, lines 797-800: the callback is pending, luma, imageData and
\* rgba are gone; the frame stays for the callbacks the video has still to
\* call with it
RegisterCallback ==
    /\ pc = "encode"
    /\ cam' = [cam EXCEPT !.callbacks = IF cam.rvfc THEN cam.callbacks + 1
                                        ELSE cam.callbacks]
    /\ rgba0' = IF cam.torun > 0 THEN rgba0 ELSE <<>>
    /\ luma' = <<>>
    /\ luma0' = <<>>
    /\ rgba' = <<>>
    /\ used' = <<>>
    /\ pc' = "pending"
    /\ UNCHANGED <<w, h, levels, wrap, cfg>>

OrderNext ==
    \/ ControlChanged
    \/ LevelsChanged
    \/ ClickBetweenFrames
    \/ StreamBetweenFrames
    \/ NextFrame
    \/ SameFrameAgain
    \/ RunDecode
    \/ RunForward
    \/ RunInverse
    \/ RunContrast
    \/ RunInvert
    \/ RunOnebit
    \/ RunEncode
    \/ RegisterCallback

SpecOrder == OrderInit /\ [][OrderNext]_vars

\* the place of a stage in the order decode, forward, inverse, contrast,
\* invert, one-bit, encode
StageRank(s) ==
    CASE s = "decode" -> 1
      [] s \in {"fwdHaar", "fwdLinear"} -> 2
      [] s \in {"invHaar", "invLinear"} -> 3
      [] s = "contrast" -> 4
      [] s = "invert" -> 5
      [] s = "onebit" -> 6
      [] s = "encode" -> 7

\* C11: within one handleNewFrame run the stages that run are in the order
\* decode, forward, inverse, contrast, invert, one-bit, encode, each at most
\* once; the run starts with the decode and, when it is over, has ended
\* with the encode; an inverse transform comes directly after the forward
\* transform of the same scheme; the stage that ran last is the one that
\* has just finished.
C11_PipelineOrder ==
    /\ \A i \in 1..Len(used), j \in 1..Len(used) :
          i < j => StageRank(used[i]) < StageRank(used[j])
    /\ Len(used) > 0 => (used[1] = "decode" /\ used[Len(used)] = pc)
    /\ pc = "encode" => used[Len(used)] = "encode"
    /\ \A i \in 1..Len(used) :
          /\ used[i] = "invHaar" => (i > 1 /\ used[i - 1] = "fwdHaar")
          /\ used[i] = "invLinear" => (i > 1 /\ used[i - 1] = "fwdLinear")

\* a run in which all seven stages ran
C11_Witness ==
    /\ pc = "encode"
    /\ used = <<"decode", "fwdLinear", "invLinear", "contrast", "invert",
                "onebit", "encode">>
    /\ Len(rgba) = Len(rgba0)

(***************************************************************************)
(* SpecCamera: the camera button, startVideo, pauseVideo, deviceChange     *)
(* (main.js 803-883) and the frame callbacks they and handleNewFrame       *)
(* register on VIDEO.  used is the number of handleNewFrame calls the last *)
(* presented frame caused.                                                 *)
(***************************************************************************)
MaxRequests == 2     \* getUserMedia promises pending at once
MaxCallbacks == 3    \* frame callbacks pending, and streams open, at once

CameraInit ==
    /\ pc = "ready"
    /\ w = 1
    /\ h = 1
    /\ levels = 1
    /\ luma = <<>>
    /\ luma0 = <<>>
    /\ rgba = <<>>
    /\ rgba0 = <<>>
    /\ wrap = FALSE
    /\ cfg = NoCfg
    /\ used = 0
    /\ cam \in {[NoCam EXCEPT !.mediaDevices = m, !.rvfc = r] :
                   m \in BOOLEAN, r \in BOOLEAN}

\* the click handler of the camera button, lines 875-883
ClickCamera ==
    /\ cam.on \/ cam.requests < MaxRequests
    /\ cam' = IF cam.on THEN pauseVideo(cam) ELSE startVideo(cam)
    /\ pc' = "clicked"
    /\ UNCHANGED <<w, h, levels, luma, luma0, rgba, rgba0, wrap, cfg, used>>

\* the promise of getUserMedia is fulfilled
StreamOpened ==
    /\ cam.requests > 0
    /\ cam.callbacks < MaxCallbacks
    /\ cam.live < MaxCallbacks
    /\ cam' = gotStream(cam)
    /\ pc' = "opened"
    /\ UNCHANGED <<w, h, levels, luma, luma0, rgba, rgba0, wrap, cfg, used>>

\* .catch((err) => { ... }), lines 846-851
StreamRefused ==
    /\ cam.requests > 0
    /\ cam' = [cam EXCEPT !.requests = cam.requests - 1]
    /\ pc' = "refused"
    /\ UNCHANGED <<w, h, levels, luma, luma0, rgba, rgba0, wrap, cfg, used>>

\* the tracks of STREAM end (the camera is unplugged)
StreamLost ==
    /\ cam.stream = "active"
    /\ cam' = [cam EXCEPT !.stream = "inactive", !.live = cam.live - 1]
    /\ pc' = "lost"
    /\ UNCHANGED <<w, h, levels, luma, luma0, rgba, rgba0, wrap, cfg, used>>

\* deviceChange(d), lines 855-860, installed at line 826
deviceChange ==
    /\ cam.ondevicechange
    /\ cam' = IF cam.stream = "inactive" THEN pauseVideo(cam) ELSE cam
    /\ pc' = "devicechange"
    /\ UNCHANGED <<w, h, levels, luma, luma0, rgba, rgba0, wrap, cfg, used>>

\* the video presents a frame: every pending callback is called once with
\* it, and each call of handleNewFrame registers one callback for the next
\* frame (lines 797-799)
FramePresented ==
    /\ cam.playing
    /\ cam.stream = "active"
    /\ cam.callbacks > 0
    /\ used' = cam.callbacks
    /\ pc' = "presented"
    /\ UNCHANGED <<w, h, levels, luma, luma0, rgba, rgba0, wrap, cfg, cam>>

CameraNext ==
    \/ ClickCamera
    \/ StreamOpened
    \/ StreamRefused
    \/ StreamLost
    \/ deviceChange
    \/ FramePresented

SpecCamera == CameraInit /\ [][CameraNext]_vars

\* C12: under every sequence of clicks, getUserMedia resolutions,
\* devicechange events and frame presentations at most one frame callback
\* is pending on the video element, and a presented frame causes exactly
\* one handleNewFrame run.
C12_OneRunPerFrame ==
    /\ cam.callbacks <= 1
    /\ pc = "presented" => used = 1

\* C28: under every interleaving of clicks, getUserMedia resolutions and
\* rejections and devicechange events, whenever no handler is executing the
\* camera button carries the class 'on' if and only if STREAM is non-null,
\* so pauseVideo is never entered with STREAM equal to null.
C28_ButtonMatchesStream ==
    /\ cam.on <=> cam.stream # "null"
    /\ ~cam.nullPause

\* the button was clicked while a stream was open: pauseVideo has run with
\* STREAM non-null and left the button off and STREAM null
C28_Witness ==
    /\ pc = "clicked"
    /\ ~cam.on
    /\ cam.stream = "null"
    /\ cam.callbacks > 0
    /\ cam.requests = 0
    /\ ~cam.nullPause

\* C29: under every interleaving of clicks and getUserMedia resolutions,
\* whenever the UI is in the paused state (button not 'on', STREAM null) and
\* no getUserMedia request is outstanding, every track of every stream that
\* getUserMedia delivered has been stopped.
C29_NoLeakedStream ==
    (~cam.on /\ cam.stream = "null" /\ cam.requests = 0) => cam.live = 0

(***************************************************************************)
(* SpecSquash: the forward transforms with the squash checkbox checked or  *)
(* not (main.js 456-457, 500-502, 574-575, 616-618).                       *)
(***************************************************************************)
MaxSquashDim == 4     \* widths and heights range over 1..MaxSquashDim

SquashVals == {0, 255}

SquashBuffers(ww, hh) ==
    {TiledBuffer(ww, hh, t, c) : t \in [1..4 -> SquashVals], c \in SquashVals}

SquashInit ==
    /\ pc = "ready"
    /\ w \in 1..MaxSquashDim
    /\ h \in 1..MaxSquashDim
    /\ levels \in 1..MaxLevels
    /\ luma \in SquashBuffers(w, h)
    /\ luma0 = luma
    /\ rgba = <<>>
    /\ rgba0 = <<>>
    /\ wrap = FALSE
    /\ cfg \in [squash : BOOLEAN, sqbias : {0, 160}]
    /\ used = <<>>
    /\ cam = NoCam

SquashNext == CallFwdHaar \/ CallFwdLinear

SpecSquash == SquashInit /\ [][SquashNext]_vars

\* what the forward transform that ran gives on the same input with the
\* squash checkbox unchecked
UnsquashedForward ==
    IF pc = "fwdHaar"
    THEN waveletFwdHaar(w, h, levels, luma0, FALSE, 0).luma
    ELSE waveletFwdLinear(w, h, levels, luma0, FALSE, 0).luma

\* the number of averages a column of the given number of rows keeps, lines
\* 619-620 / 503-504: one per pair; in a column of one row the difference
\* is stored over the only average
StoredAverages(rows) == IF rows = 1 THEN 0 ELSE Shr(rows + 1, 1)

\* the samples line 616 / 500 replaces: the columns x < cols>>1 of the last
\* level, at the rows the averages of a column are stored at
InSquashedBand(x, y) ==
    /\ x < Shr(Shr(w, levels - 1), 1)
    /\ y < StoredAverages(Shr(h, levels - 1))

\* C13 as stated: the buffer a forward transform (Haar or Linear) produces
\* is the same whether squash is enabled or not, whatever the squash bias.
C13_SquashOnlyInverse ==
    (pc \in {"fwdHaar", "fwdLinear"}) => luma = UnsquashedForward

\* C13 amended: the forward transform with squash enabled writes the squash
\* bias into the average band of the last level (columns x < cols>>1, the
\* rows of the stored averages) and leaves every other sample as the
\* transform without squash produces it; with squash disabled the bias has
\* no effect.
C13_SquashInForward ==
    (pc \in {"fwdHaar", "fwdLinear"}) =>
        LET unsquashed == UnsquashedForward
        IN  \A x \in 0..(w - 1), y \in 0..(h - 1) :
                At(luma, w, x, y) =
                    IF cfg.squash /\ InSquashedBand(x, y)
                    THEN cfg.sqbias
                    ELSE At(unsquashed, w, x, y)

\* a two-level forward Haar transform that squashed a non-zero average
C13_Witness ==
    /\ pc = "fwdHaar"
    /\ cfg.squash
    /\ cfg.sqbias = 160
    /\ w = 4 /\ h = 4 /\ levels = 2
    /\ At(luma, w, 0, 0) = 160
    /\ At(UnsquashedForward, w, 0, 0) = 255

\* C24: with squash enabled, N levels and width and height divisible by
\* 2^N, the buffer a forward transform (Haar or Linear) leaves has every
\* sample with x < (w >> N) and y < (h >> N) equal to the squash bias and
\* every other sample equal to the sample the same transform produces with
\* squash disabled, so no level other than N is affected.
C24_SquashFootprint ==
    (pc \in {"fwdHaar", "fwdLinear"} /\ cfg.squash /\ Divisible(w, h, levels)) =>
        LET unsquashed == UnsquashedForward
        IN  \A x \in 0..(w - 1), y \in 0..(h - 1) :
                IF x < Shr(w, levels) /\ y < Shr(h, levels)
                THEN At(luma, w, x, y) = cfg.sqbias
                ELSE At(luma, w, x, y) = At(unsquashed, w, x, y)

\* a two-level forward Haar transform of a 4x4 buffer: the one sample of
\* the footprint holds the bias, and the level-1 and level-2 differences
\* next to it are the unsquashed ones
C24_Witness ==
    /\ pc = "fwdHaar"
    /\ cfg.squash
    /\ cfg.sqbias = 160
    /\ w = 4 /\ h = 4 /\ levels = 2
    /\ At(luma, w, 0, 0) = 160
    /\ At(UnsquashedForward, w, 0, 0) # 160
    /\ At(luma, w, 1, 0) # 0
    /\ At(luma, w, 2, 0) # 0
    /\ At(luma, w, 1, 0) = At(UnsquashedForward, w, 1, 0)

(***************************************************************************)
(* SpecPatterns: the Haar round trip on constant buffers and on chess      *)
(* boards.                                                                 *)
(***************************************************************************)
MaxPatternDim == 8     \* widths and heights range over 1..MaxPatternDim

\* a buffer of ww x hh samples, all v
ConstantBuffer(ww, hh, v) == [j \in 1..(ww * hh) |-> v]

\* a buffer whose sample at (x, y) is even when x+y is even and odd otherwise
Checkerboard(ww, hh, even, odd) ==
    [j \in 1..(ww * hh) |->
        IF (((j - 1) % ww) + ((j - 1) \div ww)) % 2 = 0 THEN even ELSE odd]

CheckerVals == {0, 1, 254, 255}

PatternBuffers(ww, hh) ==
    {ConstantBuffer(ww, hh, v) : v \in 0..255}
        \cup {Checkerboard(ww, hh, a, b) : a \in CheckerVals, b \in CheckerVals}

PatternInit ==
    /\ pc = "ready"
    /\ w \in 1..MaxPatternDim
    /\ h \in 1..MaxPatternDim
    /\ levels \in 1..MaxLevels
    /\ Divisible(w, h, levels)
    /\ luma \in PatternBuffers(w, h)
    /\ luma0 = luma
    /\ rgba = <<>>
    /\ rgba0 = <<>>
    /\ wrap = FALSE
    /\ cfg = [squash |-> FALSE, sqbias |-> 160]
    /\ used = <<>>
    /\ cam = NoCam

PatternNext == CallFwdHaar \/ CallInvHaar \/ CallInvHaarNull

SpecPatterns == PatternInit /\ [][PatternNext]_vars

\* C14: for every constant v in 0..255, every level count and every buffer
\* size divisible by 2^levels, forward Haar (squash disabled) followed by
\* inverse Haar (either variant, gate 0, gain 0, bias 0) returns the buffer
\* whose samples all equal v.
C14_ConstantRoundTrip ==
    (HaarRoundTripDone /\ luma0 = ConstantBuffer(w, h, luma0[1])) => luma = luma0

\* the 4x4 buffer of constant 100 after one level forward and inverse
C14_Witness ==
    /\ pc = "invHaarShaped"
    /\ w = 4 /\ h = 4 /\ levels = 1
    /\ luma0 = ConstantBuffer(4, 4, 100)
    /\ luma = luma0

\* one forward Haar level has run on the 4x4 chess board of 0 and 255
CheckerboardDone ==
    /\ pc = "fwdHaar"
    /\ w = 4 /\ h = 4 /\ levels = 1
    /\ luma0 = Checkerboard(4, 4, 0, 255)

\* C15 as stated: after one forward Haar level on the 4x4 chess board of 0
\* and 255 every sample of the average band (x < 2, y < 2) is 127 or 128
\* and every sample outside it, read as a signed byte, has magnitude 127 or
\* 128.
C15_CheckerboardBands ==
    CheckerboardDone =>
        \A x \in 0..3, y \in 0..3 :
            IF x < 2 /\ y < 2
            THEN At(luma, w, x, y) \in {127, 128}
            ELSE Abs(SignExtend8(At(luma, w, x, y))) \in {127, 128}

\* C15 amended: after that level every sample of the upper half (y < 2),
\* the average band and the band to the right of it, is 127, and every
\* sample of the lower half (y >= 2) is 0.
C15_CheckerboardHalves ==
    CheckerboardDone =>
        \A x \in 0..3, y \in 0..3 :
            At(luma, w, x, y) = IF y < 2 THEN 127 ELSE 0

C15_Witness ==
    /\ CheckerboardDone
    /\ At(luma, w, 0, 0) = 127
    /\ At(luma, w, 3, 1) = 127
    /\ At(luma, w, 3, 3) = 0

(***************************************************************************)
(* SpecPasses: the four transforms of main.js 447-688 on buffers of any    *)
(* width and height, with a record of what each call did: used.trace is    *)
(* the passes in the order they started, used.outside whether a store to   *)
(* luma changed a sample outside the subregion of the running level, and   *)
(* used.oob whether a read of luma addressed a position outside it.        *)
(***************************************************************************)
MaxPassDim == 6     \* widths and heights range over 1..MaxPassDim

PassVals == {0, 255}

PassBuffers(ww, hh) ==
    {TiledBuffer(ww, hh, t, c) : t \in [1..4 -> PassVals], c \in PassVals}

PassInit ==
    /\ pc = "ready"
    /\ w \in 1..MaxPassDim
    /\ h \in 1..MaxPassDim
    /\ levels \in 1..MaxLevels
    /\ luma \in PassBuffers(w, h)
    /\ luma0 = luma
    /\ rgba = <<>>
    /\ rgba0 = <<>>
    /\ wrap = FALSE
    /\ cfg = [squash |-> FALSE, sqbias |-> 160]
    /\ used = <<>>
    /\ cam = NoCam

\* what a call did
Record(st) == [trace |-> st.trace, outside |-> st.outside, oob |-> st.oob]

\* waveletFwdHaar(w, h, levels, luma)
RunFwdHaar ==
    /\ pc = "ready"
    /\ LET st == waveletFwdHaar(w, h, levels, luma, cfg.squash, cfg.sqbias)
       IN  /\ luma' = st.luma
           /\ used' = Record(st)
    /\ pc' = "fwdHaar"
    /\ UNCHANGED <<w, h, levels, luma0, rgba, rgba0, wrap, cfg, cam>>

\* waveletInvHaar(w, h, levels, luma)
RunInvHaar ==
    /\ pc = "fwdHaar"
    /\ LET st == waveletInvHaar(w, h, levels, luma)
       IN  /\ luma' = st.luma
           /\ used' = Record(st)
    /\ pc' = "invHaar"
    /\ UNCHANGED <<w, h, levels, luma0, rgba, rgba0, wrap, cfg, cam>>

\* waveletFwdLinear(w, h, levels, luma)
RunFwdLinear ==
    /\ pc = "ready"
    /\ LET st == waveletFwdLinear(w, h, levels, luma, cfg.squash, cfg.sqbias)
       IN  /\ luma' = st.luma
           /\ used' = Record(st)
    /\ pc' = "fwdLinear"
    /\ UNCHANGED <<w, h, levels, luma0, rgba, rgba0, wrap, cfg, cam>>

\* waveletInvLinear(w, h, levels, luma)
RunInvLinear ==
    /\ pc = "fwdLinear"
    /\ LET st == waveletInvLinear(w, h, levels, luma)
       IN  /\ luma' = st.luma
           /\ used' = Record(st)
    /\ pc' = "invLinear"
    /\ UNCHANGED <<w, h, levels, luma0, rgba, rgba0, wrap, cfg, cam>>

PassNext == RunFwdHaar \/ RunInvHaar \/ RunFwdLinear \/ RunInvLinear

SpecPasses == PassInit /\ [][PassNext]_vars

\* levels 1..n in ascending order, the rows of a level before its columns
AscendingRowsFirst(n) ==
    [k \in 1..(2 * n) |->
        [level |-> (k + 1) \div 2, axis |-> IF k % 2 = 1 THEN "rows" ELSE "cols"]]

\* levels n..1 in descending order, the columns of a level before its rows
DescendingColsFirst(n) ==
    [k \in 1..(2 * n) |->
        [level |-> n - ((k - 1) \div 2), axis |-> IF k % 2 = 1 THEN "cols" ELSE "rows"]]

\* C16: a forward transform with N levels runs the levels 1, 2, .., N in
\* ascending order, each once, the pass over the rows of a level before the
\* pass over its columns; an inverse transform runs the levels N, N-1, ..,
\* 1 in descending order, each once, the columns before the rows.
C16_LevelAxisOrder ==
    /\ pc \in {"fwdHaar", "fwdLinear"} => used.trace = AscendingRowsFirst(levels)
    /\ pc \in {"invHaar", "invLinear"} => used.trace = DescendingColsFirst(levels)

\* a three-level inverse Haar transform has run
C16_Witness ==
    /\ pc = "invHaar"
    /\ levels = 3
    /\ used.trace[1] = [level |-> 3, axis |-> "cols"]
    /\ used.trace[6] = [level |-> 1, axis |-> "rows"]

\* C17: for every width, height and level count, both schemes and both
\* directions, level L stores only into samples with x < w >> (L-1) and
\* y < h >> (L-1): no store of a call changes a sample outside the
\* subregion of the level that makes it.
C17_SubregionConfined ==
    (pc \in {"fwdHaar", "invHaar", "fwdLinear", "invLinear"}) => ~used.outside

\* C18: no read of the intensity buffer made by a forward or inverse Haar
\* or Linear step addresses a position outside the subregion of its level
\* (x >= cols or y >= rows) or outside the buffer, odd subregions included.
C18_EdgeReadsInBounds ==
    (pc \in {"fwdHaar", "invHaar", "fwdLinear", "invLinear"}) => ~used.oob

(***************************************************************************)
(* SpecPairs: one pass of the first level of waveletFwdHaar, over the rows *)
(* (main.js 585-602) or over the columns (main.js 604-626) of a buffer.    *)
(***************************************************************************)
MaxPairDim == 4     \* widths and heights range over 1..MaxPairDim

PairVals == {0, 1, 127, 128, 255}

PairBuffers(ww, hh) == {TiledBuffer(ww, hh, t, t[4]) : t \in [1..4 -> PairVals]}

PairInit ==
    /\ pc = "ready"
    /\ w \in 1..MaxPairDim
    /\ h \in 1..MaxPairDim
    /\ levels = 1
    /\ luma \in PairBuffers(w, h)
    /\ luma0 = luma
    /\ rgba = <<>>
    /\ rgba0 = <<>>
    /\ wrap = FALSE
    /\ cfg = [squash |-> FALSE, sqbias |-> 160]
    /\ used = <<>>
    /\ cam = NoCam

\* for (let y=0; y<rows; y+=1) { ... } at level 1, lines 585-602
FwdHaarRowPass ==
    /\ pc = "ready"
    /\ luma' = FwdHaarRows(SetY(Work(w, h, luma), 0), w, w, h).luma
    /\ pc' = "rows"
    /\ UNCHANGED <<w, h, levels, luma0, rgba, rgba0, wrap, cfg, used, cam>>

\* for (let x=0; x<cols; x+=1) { ... } at level 1, lines 604-626
FwdHaarColPass ==
    /\ pc = "ready"
    /\ luma' = FwdHaarCols(SetX(Work(w, h, luma), 0), w, w, h,
                           cfg.squash /\ levels = 1, cfg.sqbias).luma
    /\ pc' = "cols"
    /\ UNCHANGED <<w, h, levels, luma0, rgba, rgba0, wrap, cfg, used, cam>>

PairNext == FwdHaarRowPass \/ FwdHaarColPass

SpecPairs == PairInit /\ [][PairNext]_vars

\* the two bytes the claim gives for the pair (a, b): floor((a+b)/2) and the
\* two's-complement byte of floor((b-a)/2)
PairAverage(a, b) == (a + b) \div 2

PairDifference(a, b) == ((b - a) \div 2) % 256

MaxShapeDim == 2     \* widths and heights range over 1..MaxShapeDim

ShapeVals == {0, 127, 128, 255}

ShapeBuffers(ww, hh) == {TiledBuffer(ww, hh, t, t[4]) : t \in [1..4 -> ShapeVals]}

ShapedPairInit ==
    /\ pc = "ready"
    /\ w \in 1..MaxShapeDim
    /\ h \in 1..MaxShapeDim
    /\ levels = 1
    /\ luma \in ShapeBuffers(w, h)
    /\ luma0 = luma
    /\ rgba = <<>>
    /\ rgba0 = <<>>
    /\ wrap = FALSE
    /\ cfg \in [ngate : {0, 128}, gain : 0..7, bias : 0..7]
    /\ used = <<>>
    /\ cam = NoCam

\* lines 153-156 with the controls of cfg at the index of the level
ShapeOfLevel == LevelParams(0, <<cfg.ngate>>, <<cfg.gain>>, <<cfg.bias>>)

\* for (let x=0; x<cols; x+=1) { ... } at level 1, lines 163-187
InvHaarColPass ==
    /\ pc = "ready"
    /\ LET st == InvHaarCols(SetX(Work(w, h, luma), 0), w, w, h, ShapeOfLevel)
       IN  /\ luma' = st.luma
           /\ wrap' = st.wrap
    /\ pc' = "cols"
    /\ UNCHANGED <<w, h, levels, luma0, rgba, rgba0, cfg, used, cam>>

\* for (let y=0; y<rows; y+=1) { ... } at level 1, lines 189-214
InvHaarRowPass ==
    /\ pc = "ready"
    /\ LET st == InvHaarRows(SetY(Work(w, h, luma), 0), w, w, h, ShapeOfLevel)
       IN  /\ luma' = st.luma
           /\ wrap' = st.wrap
    /\ pc' = "rows"
    /\ UNCHANGED <<w, h, levels, luma0, rgba, rgba0, cfg, used, cam>>

ShapedPairNext == InvHaarColPass \/ InvHaarRowPass

SpecShapedPairs == ShapedPairInit /\ [][ShapedPairNext]_vars

\* d' of the claim: the signed difference d, 0 when |d| < g
Gated(d, g) == IF Abs(d) < g THEN 0 ELSE d

\* B of the claim: 2^c when c > 0, 0 when c = 0
Boost(c) == IF c > 0 THEN 2 ^ c ELSE 0

\* clamp(((v) >> k) + B, 0, 255)
ShapedSample(v, k, c) == Clamp255((v \div (2 ^ k)) + Boost(c))

\* C20: for every average byte s, difference byte read as signed d, gate g,
\* gain k and bias c, the inverse Haar step writes
\* clamp(((s - d') >> k) + B, 0, 255) and clamp(((s + d') >> k) + B, 0, 255)
\* to the two adjacent positions, d' being d gated by g and B the bias
\* boost: the shift comes before the bias and the clamp last.
C20_InversePairStep ==
    /\ (pc = "rows" /\ w % 2 = 0) =>
          \A y \in 0..(h - 1), i \in {k \in 0..(w - 1) : k % 2 = 0} :
              LET s == At(luma0, w, i \div 2, y)
                  d == Gated(SignExtend8(At(luma0, w, (w + i) \div 2, y)), cfg.ngate)
              IN  /\ At(luma, w, i, y) = ShapedSample(s - d, cfg.gain, cfg.bias)
                  /\ At(luma, w, i + 1, y) = ShapedSample(s + d, cfg.gain, cfg.bias)
    /\ (pc = "cols" /\ h % 2 = 0) =>
          \A x \in 0..(w - 1), i \in {k \in 0..(h - 1) : k % 2 = 0} :
              LET s == At(luma0, w, x, i \div 2)
                  d == Gated(SignExtend8(At(luma0, w, x, (h + i) \div 2)), cfg.ngate)
              IN  /\ At(luma, w, x, i) = ShapedSample(s - d, cfg.gain, cfg.bias)
                  /\ At(luma, w, x, i + 1) = ShapedSample(s + d, cfg.gain, cfg.bias)

\* the row pass on the average 255 and the difference -128 with gate 128,
\* gain 1 and bias 1: (383 >> 1) + 2 = 193 and (127 >> 1) + 2 = 65
C20_Witness ==
    /\ pc = "rows"
    /\ w = 2
    /\ cfg = [ngate |-> 128, gain |-> 1, bias |-> 1]
    /\ At(luma0, w, 0, 0) = 255
    /\ At(luma0, w, 1, 0) = 128
    /\ At(luma, w, 0, 0) = 193
    /\ At(luma, w, 1, 0) = 65


(***************************************************************************)
(* waveletFwdLinear of the earlier revision of the script                  *)
(* (src/unnamed/part_001 87-169): a predict step with the difference       *)
(* stored at full scale, followed by an update step on the even samples.   *)
(***************************************************************************)
\* part_001 109-112 / 142-145: an odd index past the end of the array reads
\* undefined, the difference is NaN and NaN & 0xff is 0
LiftedFwdDiff(buf, even1, odd, even2) ==
    LET prediction == Shr(Load(buf, even1) + Load(buf, even2), 1)
        diff       == IF InArray(buf, odd) THEN Load(buf, odd) - prediction ELSE 0
    IN  ClampS8(diff)

\* part_001 119-124 / 152-157: luma[even] + update clamped to 0..255; an
\* even index past the end of the array reads undefined, the sum is NaN,
\* both comparisons fail and NaN & 0xff is 0
LiftedUpdate(buf, odd1, even, odd2) ==
    LET diff1  == SignExtend8(Load(buf, odd1))
        diff2  == SignExtend8(Load(buf, odd2))
        update == Shr(diff1 + diff2, 5)
    IN  IF InArray(buf, even) THEN Clamp255(Load(buf, even) + update) ELSE 0

\* for (let x=0; x<cols; x+=2) { ... }   part_001 105-113
RECURSIVE LiftedRowPredict(_, _, _)
LiftedRowPredict(st, rowBase, cols) ==
    IF st.x >= cols THEN st
    ELSE LET x     == st.x
             even1 == rowBase + x
             odd   == rowBase + x + 1
             even2 == rowBase + x + (IF x + 2 < cols THEN 2 ELSE 0)
             diff  == LiftedFwdDiff(st.luma, even1, odd, even2)
             s0    == Reads(st, {even1, odd, even2})
         IN  LiftedRowPredict(SetX(PutLuma(s0, odd, diff), x + 2), rowBase, cols)

\* for (let x=1; x<cols; x+=2) { ... }   part_001 114-125
RECURSIVE LiftedRowUpdate(_, _, _)
LiftedRowUpdate(st, rowBase, cols) ==
    IF st.x >= cols THEN st
    ELSE LET x    == st.x
             odd1 == rowBase + x + (IF x > 0 THEN -1 ELSE 1)
             even == rowBase + x + 1
             odd2 == rowBase + x + (IF x + 1 < cols THEN 1 ELSE -1)
             avg  == LiftedUpdate(st.luma, odd1, even, odd2)
             s0   == Reads(st, {odd1, even, odd2})
         IN  LiftedRowUpdate(SetX(PutLuma(s0, even, avg), x + 2), rowBase, cols)

\* for (let y=0; y<rows; y+=1) { ... }   part_001 102-134
RECURSIVE LiftedRows(_, _, _, _)
LiftedRows(st, ww, cols, rows) ==
    IF st.y >= rows THEN st
    ELSE LET y  == st.y
             s1 == LiftedRowPredict(SetX(st, 0), y * ww, cols)
             s2 == LiftedRowUpdate(SetX(s1, 1), y * ww, cols)
             s3 == DeinterleaveRow(SetX(s2, 0), y * ww, cols)
             s4 == CopyRow(SetX(s3, 0), y * ww, cols)
         IN  LiftedRows(SetY(s4, y + 1), ww, cols, rows)

\* for (let y=0; y<rows; y+=2) { ... }   part_001 138-146
RECURSIVE LiftedColPredict(_, _, _, _)
LiftedColPredict(st, ww, rows, x) ==
    IF st.y >= rows THEN st
    ELSE LET y     == st.y
             even1 == (y * ww) + x
             odd   == even1 + ww
             even2 == IF y + 2 < rows THEN odd + ww ELSE even1
             diff  == LiftedFwdDiff(st.luma, even1, odd, even2)
             s0    == Reads(st, {even1, odd, even2})
         IN  LiftedColPredict(SetY(PutLuma(s0, odd, diff), y + 2), ww, rows, x)

\* for (let y=0; y<rows; y+=2) { ... }   part_001 147-158
RECURSIVE LiftedColUpdate(_, _, _, _)
LiftedColUpdate(st, ww, rows, x) ==
    IF st.y >= rows THEN st
    ELSE LET y    == st.y
             even == (y * ww) + x
             odd1 == IF y > 0 THEN even - ww ELSE even + ww
             odd2 == IF y + 1 < rows THEN even + ww ELSE even - ww
             avg  == LiftedUpdate(st.luma, odd1, even, odd2)
             s0   == Reads(st, {odd1, even, odd2})
         IN  LiftedColUpdate(SetY(PutLuma(s0, even, avg), y + 2), ww, rows, x)

\* for (let x=0; x<cols; x+=1) { ... }   part_001 136-168
RECURSIVE LiftedCols(_, _, _, _)
LiftedCols(st, ww, cols, rows) ==
    IF st.x >= cols THEN st
    ELSE LET x  == st.x
             s1 == LiftedColPredict(SetY(st, 0), ww, rows, x)
             s2 == LiftedColUpdate(SetY(s1, 0), ww, rows, x)
             s3 == DeinterleaveCol(SetY(s2, 0), ww, rows, x, FALSE, 0)
             s4 == CopyCol(SetY(s3, 0), ww, rows, x)
         IN  LiftedCols(SetX(s4, x + 1), ww, cols, rows)

\* the body of the level loop, part_001 99-168
LiftedLevel(st, ww, hh, level) ==
    LET cols == Shr(ww, level - 1)
        rows == Shr(hh, level - 1)
        s0   == Mark(EnterLevel(st, ww, hh, level), level, "rows")
        s1   == LiftedRows(SetY(s0, 0), ww, cols, rows)
        s2   == Mark(s1, level, "cols")
    IN  LiftedCols(SetX(s2, 0), ww, cols, rows)

\* for (let level=1; level<=levels; level++) { ... }   part_001 98
RECURSIVE LiftedLevels(_, _, _, _)
LiftedLevels(st, ww, hh, lv) ==
    IF st.level > lv THEN st
    ELSE LET level == st.level
             s1    == LiftedLevel(st, ww, hh, level)
         IN  LiftedLevels(SetLevel(s1, level + 1), ww, hh, lv)

\* waveletFwdLinear(w, h, levels, luma) of part_001
waveletFwdLinearLifted(ww, hh, lv, buf) ==
    LiftedLevels(SetLevel(Work(ww, hh, buf), 1), ww, hh, lv)

(***************************************************************************)
(* SpecLifted: the update loops of that waveletFwdLinear, run on one row   *)
(* or one column of the subregion of level `levels`, and the whole         *)
(* function.  The odd positions of luma hold the difference bytes of the   *)
(* predict loop, which can be any byte; luma0 keeps the buffer the loop    *)
(* started from and used the row or column it ran on.                      *)
(***************************************************************************)
MaxLiftDim == 4     \* widths and heights range over 1..MaxLiftDim

LiftVals == {0, 127, 128, 255}

LiftBuffers(ww, hh) == {TiledBuffer(ww, hh, t, t[4]) : t \in [1..4 -> LiftVals]}

LiftedInit ==
    /\ pc = "ready"
    /\ w \in 1..MaxLiftDim
    /\ h \in 1..MaxLiftDim
    /\ levels \in 1..2
    /\ Divisible(w, h, levels)
    /\ luma \in LiftBuffers(w, h)
    /\ luma0 = luma
    /\ rgba = <<>>
    /\ rgba0 = <<>>
    /\ wrap = FALSE
    /\ cfg = NoCfg
    /\ used = 0
    /\ cam = NoCam

\* the update loop of row y, part_001 114-125
RowUpdateStep ==
    /\ pc = "ready"
    /\ \E y \in 0..(Shr(h, levels - 1) - 1) :
          LET st == EnterLevel(Work(w, h, luma), w, h, levels)
          IN  /\ luma' = LiftedRowUpdate(SetX(st, 1), y * w, st.cols).luma
              /\ used' = y
    /\ pc' = "rowUpdate"
    /\ UNCHANGED <<w, h, levels, luma0, rgba, rgba0, wrap, cfg, cam>>

\* the update loop of column x, part_001 147-158
ColUpdateStep ==
    /\ pc = "ready"
    /\ \E x \in 0..(Shr(w, levels - 1) - 1) :
          LET st == EnterLevel(Work(w, h, luma), w, h, levels)
          IN  /\ luma' = LiftedColUpdate(SetY(st, 0), w, st.rows, x).luma
              /\ used' = x
    /\ pc' = "colUpdate"
    /\ UNCHANGED <<w, h, levels, luma0, rgba, rgba0, wrap, cfg, cam>>

\* waveletFwdLinear(w, h, levels, luma), part_001 87-169
CallFwdLinearLifted ==
    /\ pc = "ready"
    /\ luma' = waveletFwdLinearLifted(w, h, levels, luma).luma
    /\ pc' = "fwdLifted"
    /\ UNCHANGED <<w, h, levels, luma0, rgba, rgba0, wrap, cfg, used, cam>>

LiftedNext == RowUpdateStep \/ ColUpdateStep \/ CallFwdLinearLifted

SpecLifted == LiftedInit /\ [][LiftedNext]_vars

\* the sample the claim gives for the even position i of an axis of n
\* samples: e + ((d1 + d2) >> 5) clamped to 0..255, d1 and d2 the signed
\* bytes at i-1 and i+1, the one neighbour inside the axis used twice at
\* either end; line(k) is the byte at position k of the axis before the step
UpdatedEven(line(_), i, n) ==
    LET before == IF i > 0 THEN i - 1 ELSE i + 1
        after  == IF i + 1 < n THEN i + 1 ELSE i - 1
    IN  Clamp255(line(i) + Shr(SignExtend8(line(before)) + SignExtend8(line(after)), 5))

\* C21: the update step of a row (of a column) of the level's subregion
\* replaces each even-indexed sample e by clamp(e + ((d1 + d2) >> 5), 0, 255),
\* d1 and d2 the sign-extended bytes at the two adjacent odd positions (the
\* one inside the subregion used twice at a boundary), and changes no
\* odd-indexed sample, no other row or column and no sample outside the
\* subregion.
C21_UpdateStep ==
    LET cols == Shr(w, levels - 1)
        rows == Shr(h, levels - 1)
    IN  /\ pc = "rowUpdate" =>
              LET row(k) == At(luma0, w, k, used)
              IN  \A x \in 0..(w - 1), y \in 0..(h - 1) :
                      At(luma, w, x, y) =
                          IF y = used /\ x < cols /\ x % 2 = 0
                          THEN UpdatedEven(row, x, cols)
                          ELSE At(luma0, w, x, y)
        /\ pc = "colUpdate" =>
              LET col(k) == At(luma0, w, used, k)
              IN  \A x \in 0..(w - 1), y \in 0..(h - 1) :
                      At(luma, w, x, y) =
                          IF x = used /\ y < rows /\ y % 2 = 0
                          THEN UpdatedEven(col, y, rows)
                          ELSE At(luma0, w, x, y)

\* the column half of C21 alone (the update loop of the columns starts at
\* y = 0 and does what the claim says)
C21_ColumnUpdateStep ==
    pc = "colUpdate" =>
        LET rows   == Shr(h, levels - 1)
            col(k) == At(luma0, w, used, k)
        IN  \A x \in 0..(w - 1), y \in 0..(h - 1) :
                At(luma, w, x, y) =
                    IF x = used /\ y < rows /\ y % 2 = 0
                    THEN UpdatedEven(col, y, rows)
                    ELSE At(luma0, w, x, y)


(***************************************************************************)
(* SpecContrast: autoContrastHistogram (main.js 690-744) on buffers large  *)
(* enough for the scaled bin counts (n >> 10) to be non-zero.  A buffer is *)
(* made of runs of equal samples, each run a number of blocks of           *)
(* 1 << histoShift samples, or one sample short of it.                     *)
(***************************************************************************)
MaxBlocks == 2      \* a run holds 0..MaxBlocks blocks (the third run 0..1)

\* the number of samples that adds 1 to a scaled bin count
BlockLen == Shl(1, histoShift)

\* the sample values of the runs, in the order of the runs: bins 0, 1, 126
\* and 127
RunVals == <<0, 3, 252, 255>>

\* the samples of a run of n blocks, one less when short
RunLen(n, short) == IF n = 0 THEN 0 ELSE (n * BlockLen) - (IF short THEN 1 ELSE 0)

\* the buffer made of the runs of n[k] blocks of RunVals[k], k = 1..4
RunBuffer(n, short) ==
    LET len(k) == RunLen(n[k], short)
        end1   == len(1)
        end2   == end1 + len(2)
        end3   == end2 + len(3)
        end4   == end3 + len(4)
    IN  [i \in 1..end4 |->
            IF i <= end1 THEN RunVals[1]
            ELSE IF i <= end2 THEN RunVals[2]
            ELSE IF i <= end3 THEN RunVals[3]
            ELSE RunVals[4]]

ContrastInit ==
    /\ pc = "ready"
    /\ h = 1
    /\ \E n \in [1..4 -> 0..MaxBlocks], short \in BOOLEAN :
          /\ n # [k \in 1..4 |-> 0]
          /\ n[3] <= 1
          /\ luma = RunBuffer(n, short)
          /\ w = Len(luma)
    /\ levels = 1
    /\ luma0 = luma
    /\ rgba = <<>>
    /\ rgba0 = <<>>
    /\ wrap = FALSE
    /\ cfg = NoCfg
    /\ used = 0
    /\ cam = NoCam

\* what one call of autoContrastHistogram leaves: the buffer, and the
\* scaled bin counts, the two peaks and the cutoff it computed on the way
ContrastRun(ww, hh, luma_) ==
    LET histo == Histogram(luma_)
        r     == autoContrastHistogram(ww, hh, luma_)
    IN  [luma |-> r.luma,
         used |-> [histo |-> histo, firstPeak |-> FirstPeak(histo),
                   lastPeak |-> LastPeak(histo), cutoff |-> r.cutoff]]

\* autoContrastHistogram(w, h, luma)
CallAutoContrast ==
    /\ pc = "ready"
    /\ \E run \in {ContrastRun(w, h, luma)} :
          /\ luma' = run.luma
          /\ used' = run.used
    /\ pc' = "contrast"
    /\ UNCHANGED <<w, h, levels, luma0, rgba, rgba0, wrap, cfg, cam>>

ContrastNext == CallAutoContrast

SpecContrast == ContrastInit /\ [][ContrastNext]_vars

\* the smallest and the largest sample of a non-empty buffer
SmallestOf(buf) ==
    CHOOSE m \in {buf[i] : i \in 1..Len(buf)} : \A i \in 1..Len(buf) : m <= buf[i]

LargestOf(buf) ==
    CHOOSE m \in {buf[i] : i \in 1..Len(buf)} : \A i \in 1..Len(buf) : m >= buf[i]

\* C22: autoContrastHistogram adds one offset, cutoff, to every sample and
\* clamps to 0..255; cutoff is 127 - (((firstPeak + lastPeak) * 2) >> 1)
\* when both peaks were found and firstPeak < lastPeak, and
\* minSample + ((maxSample - minSample) >> 1) in every other case.
C22_Cutoff ==
    pc = "contrast" =>
        LET first    == used.firstPeak
            last     == used.lastPeak
            expected == IF first >= 0 /\ last >= 0 /\ first < last
                        THEN 127 - (((first + last) * 2) \div 2)
                        ELSE LET lo == SmallestOf(luma0)
                                 hi == LargestOf(luma0)
                             IN  lo + ((hi - lo) \div 2)
        IN  /\ used.cutoff = expected
            /\ \A i \in 1..Len(luma0) :
                   luma[i] = IF luma0[i] + expected > 255 THEN 255
                             ELSE IF luma0[i] + expected < 0 THEN 0
                             ELSE luma0[i] + expected

\* the cutoff -1 of the peaks 1 < 127 has been added to a buffer of 1024
\* samples each of 0, 3 and 255: 0 stays 0 (clamped), 3 is 2 and 255 is 254
C22_Witness ==
    /\ pc = "contrast"
    /\ used.firstPeak = 1
    /\ used.lastPeak = 127
    /\ used.cutoff = -1
    /\ Len(luma0) = 3 * BlockLen
    /\ luma0[1] = 0
    /\ luma[1] = 0
    /\ luma0[BlockLen + 1] = 3
    /\ luma[BlockLen + 1] = 2
    /\ luma[Len(luma)] = 254

\* the peak the claim describes for an ascending scan of the scaled counts
\* (histo[b + 1] is the count of bucket b): -1 when every count is zero,
\* otherwise the last bucket of the longest run of non-decreasing counts
\* that starts at the lowest non-zero bucket
RunEndUp(histo) ==
    LET buckets == 0..(Len(histo) - 1)
        nonzero == {b \in buckets : histo[b + 1] > 0}
    IN  IF nonzero = {} THEN -1
        ELSE LET start == CHOOSE b \in nonzero : \A c \in nonzero : b <= c
                 ends  == {j \in start..(Len(histo) - 1) :
                              \A k \in (start + 1)..j : histo[k + 1] >= histo[k]}
             IN  CHOOSE j \in ends : \A k \in ends : j >= k

\* the same rule for a descending scan from the highest bucket
RunEndDown(histo) ==
    LET buckets == 0..(Len(histo) - 1)
        nonzero == {b \in buckets : histo[b + 1] > 0}
    IN  IF nonzero = {} THEN -1
        ELSE LET start == CHOOSE b \in nonzero : \A c \in nonzero : b >= c
                 ends  == {j \in 0..start :
                              \A k \in j..(start - 1) : histo[k + 1] >= histo[k + 2]}
             IN  CHOOSE j \in ends : \A k \in ends : j <= k

\* C23: over the 128 scaled bucket counts, firstPeak is -1 when all counts
\* are zero and otherwise the last index of the longest run of
\* non-decreasing counts that starts at the lowest non-zero bucket (an equal
\* count moves the peak forward, the first strictly smaller count ends the
\* scan), and lastPeak is obtained by the same rule scanning from the
\* highest bucket downwards.
C23_PeakSearch ==
    pc = "contrast" =>
        /\ Len(used.histo) = 128
        /\ used.firstPeak = RunEndUp(used.histo)
        /\ used.lastPeak = RunEndDown(used.histo)

\* the ascending half of C23 alone
C23_FirstPeakRule ==
    pc = "contrast" => used.firstPeak = RunEndUp(used.histo)

\* the descending half of C23 when bucket 0 is empty
C23_LastPeakRuleAboveZero ==
    (pc = "contrast" /\ used.histo[1] = 0) => used.lastPeak = RunEndDown(used.histo)

\* every bucket of two sample values holds fewer than 1024 samples of buf
BucketsBelow1024(buf) ==
    \A v \in {buf[i] : i \in 1..Len(buf)} :
        Cardinality({i \in 1..Len(buf) : buf[i] \div 2 = v \div 2}) < 1024

\* C27: whenever every one of the 128 two-value buckets holds fewer than
\* 1024 samples, no peak is found and autoContrastHistogram adds
\* minLuma + ((maxLuma - minLuma) >> 1) to every sample, clamped to 255, so
\* a constant buffer of value v becomes a constant buffer of min(255, 2v).
C27_FlatHistogram ==
    (pc = "contrast" /\ BucketsBelow1024(luma0)) =>
        LET lo == SmallestOf(luma0)
            hi == LargestOf(luma0)
            up == lo + ((hi - lo) \div 2)
        IN  /\ used.firstPeak = -1
            /\ used.lastPeak = -1
            /\ \A i \in 1..Len(luma0) :
                   luma[i] = IF luma0[i] + up > 255 THEN 255 ELSE luma0[i] + up
            /\ lo = hi =>
                   \A i \in 1..Len(luma0) :
                       luma[i] = IF 2 * lo > 255 THEN 255 ELSE 2 * lo

\* a constant buffer of 1023 samples of value 3 has become constant 6, and
\* no peak was found
C27_Witness ==
    /\ pc = "contrast"
    /\ Len(luma0) = 1023
    /\ \A i \in 1..Len(luma0) : luma0[i] = 3 /\ luma[i] = 6
    /\ used.firstPeak = -1
    /\ used.lastPeak = -1

(***************************************************************************)
(* SpecFromZero: waveletFwdHaar of main.js 93-146, whose level loop starts *)
(* at level 0, next to waveletFwdHaar of main.js 569-628 with squash       *)
(* unchecked, on the same buffer.                                          *)
(***************************************************************************)
MaxZeroDim == 4     \* widths and heights range over 1..MaxZeroDim

FromZeroInit ==
    /\ pc = "ready"
    /\ w \in 1..MaxZeroDim
    /\ h \in 1..MaxZeroDim
    /\ levels \in 1..MaxLevels
    /\ luma \in Buffers(w, h)
    /\ luma0 = luma
    /\ rgba = <<>>
    /\ rgba0 = <<>>
    /\ wrap = FALSE
    /\ cfg = NoCfg
    /\ used = 0
    /\ cam = NoCam

\* waveletFwdHaar(w, h, levels, luma) of main.js 93-146; used keeps what the
\* iteration for level 0 did: its cols and rows, and whether it read or
\* changed a sample or a scratch array
CallFwdHaarFromZero ==
    /\ pc = "ready"
    /\ luma' = waveletFwdHaarFromZero(w, h, levels, luma).luma
    /\ used' = LET start == SetLevel(Work(w, h, luma), 0)
                   st    == FwdHaarLevel(start, w, h, 0, levels, FALSE, 0)
               IN  [cols |-> st.cols, rows |-> st.rows, read |-> st.oob,
                    wrote |-> st.luma # luma \/ st.rowBuf # start.rowBuf
                                 \/ st.colBuf # start.colBuf]
    /\ pc' = "fwdHaarFromZero"
    /\ UNCHANGED <<w, h, levels, luma0, rgba, rgba0, wrap, cfg, cam>>

FromZeroNext == CallFwdHaarFromZero \/ CallFwdHaar

SpecFromZero == FromZeroInit /\ [][FromZeroNext]_vars

\* C30: in the forward Haar variant whose level loop starts at level 0, for
\* every positive width and height below 2^31 the level-0 iteration has
\* cols = w >> (0-1) = 0 and rows = h >> (0-1) = 0 (the shift count taken
\* modulo 32), reads and writes no sample, and the variant produces exactly
\* the buffer of the loop over levels 1..N.
C30_LevelZeroNoOp ==
    /\ Shr(1, 0 - 1) = 0
    /\ Shr(2147483647, 0 - 1) = 0
    /\ pc = "fwdHaarFromZero" =>
          /\ used.cols = 0 /\ used.rows = 0
          /\ Shr(w, 0 - 1) = 0 /\ Shr(h, 0 - 1) = 0
          /\ ~used.read /\ ~used.wrote
          /\ luma = waveletFwdHaar(w, h, levels, luma0, FALSE, 0).luma

\* the variant starting at level 0 has transformed a 4x4 buffer over two
\* levels into what the loop over levels 1..2 gives
C30_Witness ==
    /\ pc = "fwdHaarFromZero"
    /\ w = 4 /\ h = 4 /\ levels = 2
    /\ luma # luma0
    /\ luma = waveletFwdHaar(w, h, levels, luma0, FALSE, 0).luma
    /\ used.cols = 0

=============================================================================
